---- MODULE Spec2Model ----
(***************************************************************************)
(* store-provider: the per-service task serializer (FDroidInterface and    *)
(* OpenStoreInterface: one asyncio.Queue and one worker task each), the    *)
(* shared idle supervisor of StoreManager (main.py) and the daemon's       *)
(* setup / cleanup path.                                                   *)
(*                                                                         *)
(* The program runs on one asyncio event loop.  An action of this module   *)
(* is one run of a task from one suspension point (await) to the next.     *)
(* asyncio.create_task only schedules: the reset of the idle timer that    *)
(* _reset_idle_timer asks for runs in a later step.  resetPending says     *)
(* that reset_idle_timer tasks are scheduled and have not run yet: they    *)
(* sit next to each other in the loop's ready queue and running several    *)
(* of them in a row leaves the state that running one leaves.              *)
(* Task.cancel() on a task makes its pending await raise CancelledError    *)
(* at its next step; nothing else observes the task in between, so the     *)
(* request and the task's reaction are one step here.                      *)
(***************************************************************************)
EXTENDS Integers, Sequences, FiniteSets, TLC

\* Bounds of the model.
MaxJobs == 2          \* jobs put on the two queues over one run
TickLen == 60         \* seconds that pass in one Tick

\* self.idle_timeout = 120 (seconds)
IdleTimeout == 120

Services == {"android", "open"}
JobIds == 1..MaxJobs
NoItem == <<0, 0>>

VARIABLES
    mgr,             \* StoreManager.setup: where the setup task is suspended
    sigint,          \* main: stop_event (SIGINT received)
    svc,             \* per service: AndroidStoreService/OpenStoreService.setup task
    disconnected,    \* per service: its bus has disconnected
    running,         \* per service: interface._running
    task_processor,  \* per service: interface._task_processor (the worker task)
    task_queue,      \* per service: interface._task_queue, items <<task, future>>
    current,         \* per service: the (task, future) the worker holds
    jobs,            \* per job: its body's progress and its caller's future
    nextJob,         \* next job id
    session,         \* per service: interface.session is not None
    db,              \* per service: interface.db
    idle_timer,      \* StoreManager.idle_timer: none, a live task, a finished task
    timers,          \* remaining sleep of every live _idle_countdown task, oldest first
    resetPending,    \* reset_idle_timer tasks are scheduled and have not run yet
    shutdown_event,  \* StoreManager.shutdown_event
    sinceReset,      \* time since reset_idle_timer last ran (saturates at IdleTimeout)
    refired,         \* shutdown_event.set() was called with the event already set
    \* Catalog sync of one service (update_cache / fetch_all_apps) and its catalog store
    eng,             \* the service whose sync engine runs: android, open
    repo_custom,     \* per source name: its entry in CUSTOM_REPO_CONFIG_DIR (absent, file, dir)
    repo_default,    \* per source name: its entry in DEFAULT_REPO_CONFIG_DIR
    repo_mirrors,    \* per source name: number of mirror lines in its repo file
    pc,              \* where the queued body is: idle, fetch, parse, begin, delete, insert,
                     \* commit, finish, read
    repo_task,       \* per source name: its process_repo_file task
    next_page,       \* fetch_app_list: page being fetched (0: none)
    cache,           \* per source name: the index staged in CACHE_DIR/<name>
    packages,        \* rows returned by process_indexes / apps returned by fetch_app_list
    apps_db,         \* table apps as committed (what another connection reads)
    conn_db,         \* table apps as the service's own connection reads it
    in_tx,           \* the service's connection is inside a transaction
    op,              \* the exposed operation whose body is running or ran last
    before,          \* table apps when the running sync started
    last,            \* the sync that completed last: its outcomes and the catalog it left
    polled,          \* row count another connection read last
    nOps,            \* operations started
    nRestarts,       \* times the daemon ended and was started again
    \* Installed-state store (installed_apps) of OpenStore
    installed,       \* ids of the rows of installed_apps
    app_dirs,        \* ids whose app_dir exists on disk
    cursor,          \* get_installed_apps: rows still to visit
    listed,          \* get_installed_apps: records collected / returned
    startRows,       \* rows and directories when the running or last list() started
    got_app,         \* the last call of get_installed_app and what it returned
    \* What the mirrors serve, the upgrade resolvers, the apt transaction
    index_kind,      \* per source name: the index-v2.json its mirrors serve (good, garbled,
                     \* malformed)
    resolver,        \* one run of an upgrade resolver: its inputs and what it returned
    apt,             \* one aptdaemon transaction and the call that waits for it
    click,           \* one OpenStore package: its installed_apps row, its app directory,
                     \* its desktop entries, and the Install body working on it
    upgrade          \* one run of the body of FDroidInterface.UpgradePackages

serveVars == <<mgr, sigint, svc, disconnected, running, task_processor, task_queue,
               current, jobs, nextJob, session, db, idle_timer, timers, resetPending,
               shutdown_event, sinceReset, refired>>

syncVars == <<eng, repo_custom, repo_default, repo_mirrors, pc, repo_task, next_page, cache,
              packages, apps_db, conn_db, in_tx, op, before, last, polled, nOps,
              nRestarts>>

instVars == <<installed, app_dirs, cursor, listed, startRows, got_app>>

moreVars == <<index_kind, resolver, apt, click, upgrade>>

storeVars == <<syncVars, instVars, moreVars>>

vars == <<serveVars, syncVars, instVars, moreVars>>

svcVars == <<running, task_processor, task_queue, current, jobs, nextJob>>
timerVars == <<idle_timer, timers, shutdown_event, sinceReset, refired>>

Min(a, b) == IF a < b THEN a ELSE b
Max(a, b) == IF a > b THEN a ELSE b

\* A job: the task closure and the asyncio.Future its caller awaits.
\*   svc    the service whose queue it was put on ("none": not created yet)
\*   body   progress of the closure: none, running, waiting (for the future of the
\*          job `child` it enqueued), returned, raised, cancelled
\*   runs   times the worker has started the closure
\*   fut    the future: pending, result, exception, cancelled
\*   of     the task whose outcome the future holds; sets: times it has been set
\*   late   it was put when the worker of its service had already ended
NoJob == [svc |-> "none", kind |-> "plain", body |-> "none", runs |-> 0,
          fut |-> "pending", of |-> 0, sets |-> 0, child |-> 0, late |-> FALSE]

\* Job kinds a caller can enqueue.  "upgrade" is OpenStoreInterface.UpgradePackages,
\* whose body calls self.GetUpgradable() / self.Install(), i.e. _queue_task, from
\* inside the worker; every other exposed operation is "plain".
Kinds(s) == IF s = "open" THEN {"plain", "upgrade"} ELSE {"plain"}

\* The catalog sync and the stores: values of the state.
Engines == {"android", "open"}
Names == {"a", "b"}
\* Source names that may have an entry in the custom directory.
CustomNames == {"a"}

\* A file in CACHE_DIR/<name>: the index downloaded from mirror i of the repo file
\* of directory dir, together with its repo_url.txt; none; or a partly written index.
NoFile == [dir |-> "none", i |-> 0]
PartialFile == [dir |-> "partial", i |-> 0]
Whole(f) == f.dir \in {"custom", "default"}

\* A process_repo_file task: st none, run, done, raised; dir the directory whose repo
\* file it reads; next the mirror it attempts next; ok its return value; tried the
\* attempts made, as <<mirror, value returned by download_index>>.
\* count: the tasks update_cache created for the name.
NoFetch == [st |-> "none", dir |-> "none", next |-> 0, ok |-> FALSE, tried |-> <<>>,
            count |-> 0]

\* An exposed operation: zero, the row count it found was zero; synced, it ran a
\* sync; res, what the sync returned (none, true, false, raised); read, it went on
\* to read the catalog; out, what it gave its caller (none while running).
\* ping: what ping_session_manager met (Android); backend: the body called the
\* container's session manager (get_apps_info, install_app, remove_app).
NoOp == [name |-> "none", zero |-> FALSE, synced |-> FALSE, res |-> "none",
         read |-> FALSE, out |-> "none", ping |-> "none", backend |-> FALSE]

NoSync == [done |-> FALSE, outs |-> <<>>, rows |-> {}]

SyncQuiet ==
    /\ eng = "android"
    /\ repo_custom = [n \in Names |-> "absent"]
    /\ repo_default = [n \in Names |-> "absent"]
    /\ repo_mirrors = [n \in Names |-> 0]
    /\ pc = "idle"
    /\ repo_task = [n \in Names |-> NoFetch]
    /\ next_page = 0
    /\ cache = [n \in Names |-> NoFile]
    /\ packages = {}
    /\ apps_db = {}
    /\ conn_db = {}
    /\ in_tx = FALSE
    /\ op = NoOp
    /\ before = [conn |-> {}, disk |-> {}]
    /\ last = NoSync
    /\ polled = 0
    /\ nOps = 0
    /\ nRestarts = 0

NoGet == [id |-> "none", res |-> "none", n |-> 0]

InstQuiet ==
    /\ installed = {}
    /\ app_dirs = {}
    /\ cursor = <<>>
    /\ listed = <<>>
    /\ startRows = [rows |-> {}, dirs |-> {}, st |-> "none"]
    /\ got_app = NoGet

IndexKinds == {"good", "garbled", "malformed"}
NoResolve == [st |-> "none"]
NoApt == [st |-> "unused"]
NoClick == [pc |-> "unused"]
NoUpgrade == [pc |-> "unused"]

MoreQuiet ==
    /\ index_kind = [n \in Names |-> "good"]
    /\ resolver = NoResolve
    /\ apt = NoApt
    /\ click = NoClick
    /\ upgrade = NoUpgrade

ServeInit ==
    /\ mgr = "init"
    /\ sigint = FALSE
    /\ svc = [s \in Services |-> "none"]
    /\ disconnected = [s \in Services |-> FALSE]
    /\ running = [s \in Services |-> FALSE]
    /\ task_processor = [s \in Services |-> "none"]
    /\ task_queue = [s \in Services |-> <<>>]
    /\ current = [s \in Services |-> NoItem]
    /\ jobs = [j \in JobIds |-> NoJob]
    /\ nextJob = 1
    /\ session = [s \in Services |-> FALSE]
    /\ db = [s \in Services |-> "none"]
    /\ idle_timer = "none"
    /\ timers = <<>>
    /\ resetPending = FALSE
    /\ shutdown_event = FALSE
    /\ sinceReset = 0
    /\ refired = FALSE

Init == ServeInit /\ SyncQuiet /\ InstQuiet /\ MoreQuiet

----------------------------------------------------------------------------
(* Idle supervisor: StoreManager.reset_idle_timer / _idle_countdown *)

\* if self.idle_timer: self.idle_timer.cancel()
\* (the task idle_timer refers to is the newest one, the last of timers)
CancelIdle_mutNoCancel(ts, it) == ts
CancelIdle(ts, it) == IF it = "live" THEN SubSeq(ts, 1, Len(ts) - 1) ELSE ts

\* await asyncio.sleep(self.idle_timeout)
sleep_duration_mutShort == IdleTimeout - TickLen
sleep_duration == IdleTimeout

\* reset_idle_timer never touches shutdown_event
EventAfterReset_mutClear(ev) == FALSE
EventAfterReset(ev) == ev

\* self.idle_timer = asyncio.create_task(self._idle_countdown())
TimersAfterReset(ts, it) == Append(CancelIdle(ts, it), sleep_duration)

\* interface._reset_idle_timer: asyncio.create_task(self.idle_callback())
schedule_reset_mutNoCallback(pending) == pending
schedule_reset(pending) == TRUE

\* The scheduled reset_idle_timer tasks run.
ResetTask ==
    /\ mgr # "exited"
    /\ resetPending
    /\ resetPending' = FALSE
    /\ timers' = TimersAfterReset(timers, idle_timer)
    /\ idle_timer' = "live"
    /\ sinceReset' = 0
    /\ shutdown_event' = EventAfterReset(shutdown_event)
    /\ UNCHANGED <<mgr, sigint, svc, disconnected, svcVars, session, db, refired>>
    /\ UNCHANGED storeVars

\* TickLen seconds pass.
Tick ==
    /\ mgr # "exited"
    /\ \/ sinceReset < IdleTimeout
       \/ \E i \in 1..Len(timers) : timers[i] > 0
    /\ timers' = [i \in 1..Len(timers) |-> Max(0, timers[i] - TickLen)]
    /\ sinceReset' = Min(IdleTimeout, sinceReset + TickLen)
    /\ UNCHANGED <<mgr, sigint, svc, disconnected, svcVars, session, db,
                   idle_timer, resetPending, shutdown_event, refired>>
    /\ UNCHANGED storeVars

RemoveAt(seq, i) == SubSeq(seq, 1, i - 1) \o SubSeq(seq, i + 1, Len(seq))

\* _idle_countdown: the sleep is over, self.shutdown_event.set()
idle_countdown(i) ==
    /\ mgr # "exited"
    /\ i \in 1..Len(timers)
    /\ timers[i] = 0
    /\ shutdown_event' = TRUE
    /\ refired' = (refired \/ shutdown_event)
    /\ timers' = RemoveAt(timers, i)
    /\ idle_timer' = IF i = Len(timers) /\ idle_timer = "live" THEN "dead" ELSE idle_timer
    /\ UNCHANGED <<mgr, sigint, svc, disconnected, svcVars, session, db,
                   resetPending, sinceReset>>
    /\ UNCHANGED storeVars

----------------------------------------------------------------------------
(* Task serializer: _queue_task / _process_task_queue *)

Put(j) == jobs[j].svc # "none"
Started(j) == jobs[j].runs > 0
Executing(j) == jobs[j].body \in {"running", "waiting"}

\* Ids kept for the jobs that queued "upgrade" bodies will enqueue when they start.
Reserved == Cardinality({j \in JobIds : Put(j) /\ jobs[j].kind = "upgrade" /\ ~Started(j)})

NewJob(s, k) == [NoJob EXCEPT !.svc = s, !.kind = k,
                              !.late = (task_processor[s] = "exited")]

\* _queue_task up to "await future": future = asyncio.Future(); put; reset idle timer
queue_task(s, k) ==
    /\ mgr # "exited"
    /\ svc[s] = "ready"
    /\ ~disconnected[s]
    /\ k \in Kinds(s)
    /\ nextJob + Reserved + (IF k = "upgrade" THEN 1 ELSE 0) <= MaxJobs
    /\ jobs' = [jobs EXCEPT ![nextJob] = NewJob(s, k)]
    /\ task_queue' = [task_queue EXCEPT ![s] = Append(@, <<nextJob, nextJob>>)]
    /\ nextJob' = nextJob + 1
    /\ resetPending' = schedule_reset(resetPending)
    /\ UNCHANGED <<mgr, sigint, svc, disconnected, running, task_processor, current,
                   session, db, timerVars>>
    /\ UNCHANGED storeVars

\* asyncio.Queue.get: <<the item taken, the queue left>>
queue_get_mutLifo(q) == <<q[Len(q)], SubSeq(q, 1, Len(q) - 1)>>
queue_get_mutKeep(q) == <<Head(q), q>>
queue_get(q) == <<Head(q), Tail(q)>>

\* The worker is suspended in "await self._task_queue.get()".
WorkerParked_mutLock(s) ==
    task_processor[s] = "parked" /\ \A t \in Services : task_processor[t] # "busy"
WorkerParked_mutAny(s) == task_processor[s] \in {"parked", "busy"}
WorkerParked_mutExited(s) == task_processor[s] \in {"parked", "exited"}
WorkerParked(s) == task_processor[s] = "parked"

\* _process_task_queue: get the next item, reset the idle timer, "await task()" up
\* to the body's first suspension.  An "upgrade" body gets as far as its own
\* _queue_task (put of a new job on this queue, idle reset) and waits for that future.
process_task_queue_get(s) ==
    /\ mgr # "exited"
    /\ running[s]
    /\ WorkerParked(s)
    /\ task_queue[s] # <<>>
    /\ LET got == queue_get(task_queue[s])
           t == got[1][1]
           nested == jobs[t].kind = "upgrade"
           js == [jobs EXCEPT ![t].runs = @ + 1,
                              ![t].body = IF nested THEN "waiting" ELSE "running",
                              ![t].child = IF nested THEN nextJob ELSE 0]
       IN  /\ current' = [current EXCEPT ![s] = got[1]]
           /\ task_processor' = [task_processor EXCEPT ![s] = "busy"]
           /\ IF nested
              THEN /\ jobs' = [js EXCEPT ![nextJob] = NewJob(s, "plain")]
                   /\ task_queue' = [task_queue EXCEPT
                                       ![s] = Append(got[2], <<nextJob, nextJob>>)]
                   /\ nextJob' = nextJob + 1
                   /\ resetPending' = schedule_reset(schedule_reset(resetPending))
              ELSE /\ jobs' = js
                   /\ task_queue' = [task_queue EXCEPT ![s] = got[2]]
                   /\ nextJob' = nextJob
                   /\ resetPending' = schedule_reset(resetPending)
    /\ UNCHANGED <<mgr, sigint, svc, disconnected, running, session, db, timerVars>>
    /\ UNCHANGED storeVars

\* The body of task t can finish: it is running, or the future it waits for is resolved.
CanFinish(t) ==
    \/ jobs[t].body = "running"
    \/ /\ jobs[t].body = "waiting"
       /\ jobs[jobs[t].child].fut # "pending"

\* future.set_result(result) / future.set_exception(e) for the result of task t
SetFuture(js, f, st, t) ==
    [js EXCEPT ![f].fut = st, ![f].of = t, ![f].sets = @ + 1]

\* The worker after "except Exception as e: future.set_exception(e)": task_done(),
\* back to the while loop and to "await self._task_queue.get()".
AfterTaskError_mutDies == "exited"
AfterTaskError == "parked"

\* self.session = aiohttp.ClientSession() inside a running body (ensure_session)
ensure_session(s) ==
    /\ mgr # "exited"
    /\ task_processor[s] = "busy"
    /\ current[s] # NoItem
    /\ jobs[current[s][1]].body = "running"
    /\ ~session[s]
    /\ session' = [session EXCEPT ![s] = TRUE]
    /\ UNCHANGED <<mgr, sigint, svc, disconnected, svcVars, db, timerVars, resetPending>>
    /\ UNCHANGED storeVars

\* result = await task(); future.set_result(result); task_done(); next get().
\* close: the body ended with cleanup_session() (update_cache, UpgradePackages of
\* the Android service) or left the session as it was.
task_returns(s, close) ==
    /\ mgr # "exited"
    /\ task_processor[s] = "busy"
    /\ current[s] # NoItem
    /\ CanFinish(current[s][1])
    /\ LET t == current[s][1]
           f == current[s][2]
       IN  jobs' = SetFuture([jobs EXCEPT ![t].body = "returned"], f, "result", t)
    /\ session' = [session EXCEPT ![s] = IF close THEN FALSE ELSE @]
    /\ task_processor' = [task_processor EXCEPT ![s] = "parked"]
    /\ current' = [current EXCEPT ![s] = NoItem]
    /\ UNCHANGED <<mgr, sigint, svc, disconnected, running, task_queue, nextJob, db,
                   timerVars, resetPending>>
    /\ UNCHANGED storeVars

\* await task() raises: future.set_exception(e); task_done(); next get().
task_raises(s) ==
    /\ mgr # "exited"
    /\ task_processor[s] = "busy"
    /\ current[s] # NoItem
    /\ CanFinish(current[s][1])
    /\ LET t == current[s][1]
           f == current[s][2]
       IN  jobs' = SetFuture([jobs EXCEPT ![t].body = "raised"], f, "exception", t)
    /\ task_processor' = [task_processor EXCEPT ![s] = AfterTaskError]
    /\ current' = [current EXCEPT ![s] = NoItem]
    /\ UNCHANGED <<mgr, sigint, svc, disconnected, running, task_queue, nextJob,
                   session, db, timerVars, resetPending>>
    /\ UNCHANGED storeVars

----------------------------------------------------------------------------
(* Service setup: AndroidStoreService.setup / OpenStoreService.setup *)

\* The interface object exists (its constructor started the worker).
Interface(s) == task_processor[s] # "none"

\* self.bus = await MessageBus(...).connect(); the interface is constructed:
\* _start_task_processor() and _reset_idle_timer(); suspended in init_db.
service_connect(s) ==
    /\ mgr # "exited"
    /\ svc[s] = "connecting"
    /\ svc' = [svc EXCEPT ![s] = "init_db"]
    /\ running' = [running EXCEPT ![s] = TRUE]
    /\ task_processor' = [task_processor EXCEPT ![s] = "parked"]
    /\ resetPending' = schedule_reset(resetPending)
    /\ UNCHANGED <<mgr, sigint, disconnected, task_queue, current, jobs, nextJob,
                   session, db, timerVars>>
    /\ UNCHANGED storeVars

\* connect() raises: the setup task of the service ends with the exception.
service_connect_fails(s) ==
    /\ mgr # "exited"
    /\ svc[s] = "connecting"
    /\ svc' = [svc EXCEPT ![s] = "failed"]
    /\ UNCHANGED <<mgr, sigint, disconnected, svcVars, session, db, timerVars, resetPending>>
    /\ UNCHANGED storeVars

\* init_db returns (self.db is assigned), the interface is exported and the name
\* requested.  OpenStoreInterface.init_db calls fetch_all_apps, hence ensure_session,
\* when the apps table is empty (fetch).
service_init_db(s, fetch) ==
    /\ mgr # "exited"
    /\ svc[s] = "init_db"
    /\ fetch => s = "open"
    /\ svc' = [svc EXCEPT ![s] = "ready"]
    /\ db' = [db EXCEPT ![s] = "open"]
    /\ session' = [session EXCEPT ![s] = @ \/ fetch]
    /\ UNCHANGED <<mgr, sigint, disconnected, svcVars, timerVars, resetPending>>
    /\ UNCHANGED storeVars

\* The bus of a service is lost (wait_for_disconnect returns).  Only setup's
\* asyncio.wait looks at it, so it is recorded while setup has yet to return from it.
bus_disconnect(s) ==
    /\ mgr \in {"await_android", "await_open", "wait"}
    /\ svc[s] = "ready"
    /\ ~disconnected[s]
    /\ disconnected' = [disconnected EXCEPT ![s] = TRUE]
    /\ UNCHANGED <<mgr, sigint, svc, svcVars, session, db, timerVars, resetPending>>
    /\ UNCHANGED storeVars

----------------------------------------------------------------------------
(* StoreManager.setup and its finally block; main *)

CloseState(s) == IF s = "android" THEN "close_android" ELSE "close_open"

\* The finally block of setup runs AndroidStoreService.cleanup, OpenStoreService.cleanup
\* (each only "if self.<x>_interface") and then cancels the idle timer.
FirstStage ==
    IF Interface("android") THEN "android"
    ELSE IF Interface("open") THEN "open" ELSE "timer"
StageAfter(s) == IF s = "android" /\ Interface("open") THEN "open" ELSE "timer"

\* The workers of the services S are cancelled: the body a worker is in gets
\* CancelledError (no body catches it; "except Exception" does not) and the worker
\* leaves its loop at "except asyncio.CancelledError: break" without touching the
\* future it holds.  A future is cancelled only with the task that awaits it: the
\* future of a job that a cancelled body had enqueued and was waiting for, and,
\* when asyncio.run cancels every task (all), the futures of all callers.
CancelJobs(S, all) ==
    [j \in JobIds |->
        LET r == IF jobs[j].svc \in S /\ Executing(j)
                 THEN [jobs[j] EXCEPT !.body = "cancelled"]
                 ELSE jobs[j]
            awaitedByCancelled ==
                \E p \in JobIds : /\ jobs[p].svc \in S
                                   /\ jobs[p].body = "waiting"
                                   /\ jobs[p].child = j
        IN  IF Put(j) /\ r.fut = "pending" /\ (all \/ awaitedByCancelled)
            THEN [r EXCEPT !.fut = "cancelled"]
            ELSE r]

CancelSetups == [s \in Services |->
                   IF svc[s] \in {"connecting", "init_db"} THEN "cancelled" ELSE svc[s]]

ServiceOf(m) == IF m = "close_android" THEN "android" ELSE "open"

\* setup moves on to `stage` of its finally block:
\*   a service: interface.cleanup up to "await self._task_processor": _running =
\*              False, the worker is cancelled and ends (break); setup is then in
\*              the awaits of that cleanup (CloseState);
\*   "timer":   if self.idle_timer and not self.idle_timer.done(): cancel(); setup
\*              returns;
\*   "abort":   CancelledError leaves setup.
\* When setup_task is done main returns at once and asyncio.run cancels every task
\* of the loop (all): workers, countdowns, scheduled resets, service setups, callers.
\* sig: main has cancelled setup_task on SIGINT and returned, with the same effect
\* on every other task while setup is still in its finally block.
Leave(stage, sig) ==
    LET all == sig \/ stage \notin Services
        S == IF all THEN Services ELSE {stage}
    IN  /\ mgr' = IF stage \in Services THEN CloseState(stage) ELSE "exited"
        /\ running' = [s \in Services |-> IF s = stage THEN FALSE ELSE running[s]]
        /\ task_processor' = [s \in Services |->
                                IF s \in S /\ Interface(s) THEN "exited"
                                ELSE task_processor[s]]
        /\ jobs' = CancelJobs(S, all)
        /\ current' = [s \in Services |-> IF s \in S THEN NoItem ELSE current[s]]
        /\ timers' = IF all THEN <<>> ELSE timers
        /\ idle_timer' = IF all /\ idle_timer = "live" THEN "dead" ELSE idle_timer
        /\ resetPending' = (IF all THEN FALSE ELSE resetPending)
        /\ svc' = IF all THEN CancelSetups ELSE svc

\* setup up to "await android_bus_task": both services constructed,
\* "await self.reset_idle_timer()" (run inline), the two setup tasks created.
setup_start ==
    /\ mgr = "init"
    /\ mgr' = "await_android"
    /\ svc' = [s \in Services |-> "connecting"]
    /\ timers' = TimersAfterReset(timers, idle_timer)
    /\ idle_timer' = "live"
    /\ sinceReset' = 0
    /\ shutdown_event' = EventAfterReset(shutdown_event)
    /\ UNCHANGED <<sigint, disconnected, svcVars, session, db, resetPending, refired>>
    /\ UNCHANGED storeVars

\* "android_bus = await android_bus_task" / "openstore_bus = await openstore_bus_task"
\* returns; after the second, setup is in asyncio.wait(FIRST_COMPLETED).
setup_bus_ready(s) ==
    /\ mgr = (IF s = "android" THEN "await_android" ELSE "await_open")
    /\ svc[s] = "ready"
    /\ mgr' = (IF s = "android" THEN "await_open" ELSE "wait")
    /\ UNCHANGED <<sigint, svc, disconnected, svcVars, session, db, timerVars, resetPending>>
    /\ UNCHANGED storeVars

\* ... or raises the exception of the service's setup: straight to the finally block.
setup_bus_failed(s) ==
    /\ mgr = (IF s = "android" THEN "await_android" ELSE "await_open")
    /\ svc[s] = "failed"
    /\ Leave(FirstStage, FALSE)
    /\ UNCHANGED <<sigint, disconnected, task_queue, nextJob, session, db,
                   shutdown_event, sinceReset, refired>>
    /\ UNCHANGED storeVars

\* asyncio.wait returns on the first of: shutdown_event set, a bus disconnected.
setup_wait_done ==
    /\ mgr = "wait"
    /\ shutdown_event \/ \E s \in Services : disconnected[s]
    /\ Leave(FirstStage, FALSE)
    /\ UNCHANGED <<sigint, disconnected, task_queue, nextJob, session, db,
                   shutdown_event, sinceReset, refired>>
    /\ UNCHANGED storeVars

\* interface.cleanup after the worker has ended: await self.cleanup_session(),
\* await self.db.close() (and installed_db); then the next stage of the finally block.
cleanup_close(s) ==
    /\ mgr = CloseState(s)
    /\ session' = [session EXCEPT ![s] = FALSE]
    /\ db' = [db EXCEPT ![s] = IF @ = "open" THEN "closed" ELSE @]
    /\ Leave(StageAfter(s), sigint)
    /\ UNCHANGED <<sigint, disconnected, task_queue, nextJob,
                   shutdown_event, sinceReset, refired>>
    /\ UNCHANGED storeVars

\* SIGINT: handle_sigint sets stop_event; main cancels setup_task and returns, and
\* asyncio.run cancels every task left.  setup gets CancelledError where it is
\* suspended: before its first step it never runs; in the awaits of its try block
\* it goes to the finally block; in a cleanup, "await self._task_processor" is
\* inside "except asyncio.CancelledError: pass" and the cleanup goes on (swallowed),
\* while in "await self.session.close()" / "await self.db.close()", which are
\* reached only with a session or a database to close, it leaves the finally block.
ClosingSomething(s) == session[s] \/ db[s] = "open"

SigintStage(swallowed) ==
    IF mgr \in {"await_android", "await_open", "wait"} THEN FirstStage
    ELSE IF swallowed THEN ServiceOf(mgr) ELSE "abort"

main_sigint(swallowed) ==
    /\ ~sigint
    /\ mgr # "exited"
    /\ mgr \in {"close_android", "close_open"} =>
           (swallowed \/ ClosingSomething(ServiceOf(mgr)))
    /\ swallowed => mgr \in {"close_android", "close_open"}
    /\ sigint' = TRUE
    /\ Leave(SigintStage(swallowed), TRUE)
    /\ UNCHANGED <<disconnected, task_queue, nextJob, session, db,
                   shutdown_event, sinceReset, refired>>
    /\ UNCHANGED storeVars

----------------------------------------------------------------------------
Next ==
    \/ ResetTask
    \/ Tick
    \/ \E i \in 1..Len(timers) : idle_countdown(i)
    \/ \E s \in Services :
         \/ \E k \in Kinds(s) : queue_task(s, k)
         \/ process_task_queue_get(s)
         \/ ensure_session(s)
         \/ \E close \in BOOLEAN : task_returns(s, close)
         \/ task_raises(s)
         \/ service_connect(s)
         \/ service_connect_fails(s)
         \/ \E fetch \in BOOLEAN : service_init_db(s, fetch)
         \/ bus_disconnect(s)
         \/ setup_bus_ready(s)
         \/ setup_bus_failed(s)
         \/ cleanup_close(s)
    \/ setup_start
    \/ setup_wait_done
    \/ \E swallowed \in BOOLEAN : main_sigint(swallowed)

Spec == Init /\ [][Next]_vars

----------------------------------------------------------------------------
(* Catalog sync: FDroidInterface.update_cache, OpenStoreInterface.fetch_all_apps,
   and the catalog store (table apps) *)

MaxMirrors == 2
MaxPages == 2
MaxOps == 3
MaxRestarts == 1

Kinds_of_entry == {"absent", "file", "dir"}

\* The daemon is up with one service's catalog open; the repo directories hold any
\* mix of files and directories, each repo file any number of mirrors.
SyncInit ==
    /\ ServeInit
    /\ InstQuiet
    /\ MoreQuiet
    /\ eng \in Engines
    /\ repo_custom \in [Names -> Kinds_of_entry]
    /\ repo_default \in [Names -> {"absent", "file"}]
    /\ repo_mirrors \in [Names -> 0..MaxMirrors]
    /\ \A n \in Names : n \notin CustomNames => repo_custom[n] = "absent"
    /\ eng = "open" => /\ repo_custom = [n \in Names |-> "absent"]
                       /\ repo_default = [n \in Names |-> "absent"]
                       /\ repo_mirrors = [n \in Names |-> 0]
    /\ pc = "idle"
    /\ repo_task = [n \in Names |-> NoFetch]
    /\ next_page = 0
    /\ cache = [n \in Names |-> NoFile]
    /\ packages = {}
    /\ apps_db = {}
    /\ conn_db = {}
    /\ in_tx = FALSE
    /\ op = NoOp
    /\ before = [conn |-> {}, disk |-> {}]
    /\ last = NoSync
    /\ polled = 0
    /\ nOps = 0
    /\ nRestarts = 0

\* What one HTTP download can meet: 200 and the whole body; another status; an
\* exception from session.get; an exception while the body is streamed.
Outcomes == {"ok", "status", "transport", "midstream"}

\* download_file, "except Exception": if os.path.exists(file_path): os.remove(file_path)
RemoveOnError_mutKeep(f) == f
RemoveOnError(f) == NoFile

\* download_file: the file at file_path after the call; new is the body served.
download_file_path(out, f, new) ==
    CASE out = "ok" -> new
      [] out = "status" -> f
      [] out = "transport" -> RemoveOnError(f)
      [] out = "midstream" -> RemoveOnError(PartialFile)

\* download_file / download_index: the value returned
download_file_result(out) == out = "ok"

\* update_cache: all_repo_files, files of the custom directory and then files of the
\* default directory whose name is not there yet.
CustomFiles == {n \in Names : repo_custom[n] = "file"}

\* "os.path.isfile(...) and config_file not in all_repo_files"
DefaultAdded(n) == repo_default[n] = "file" /\ n \notin CustomFiles

all_repo_files == CustomFiles \cup {n \in Names : DefaultAdded(n)}

\* Tasks appended to `tasks` for name n.
TaskCount(n) == (IF n \in CustomFiles THEN 1 ELSE 0) + (IF DefaultAdded(n) THEN 1 ELSE 0)

\* update_cache: repo_dir, "if os.path.exists(os.path.join(CUSTOM_REPO_CONFIG_DIR, f))"
RepoDir_mutDefault(n) == IF repo_default[n] = "file" THEN "default" ELSE "custom"
RepoDir(n) == IF repo_custom[n] # "absent" THEN "custom" ELSE "default"

\* process_repo_file: "break" at the first mirror that succeeds
AfterSuccess_mutGoOn(t, len) == IF t.next >= len THEN "done" ELSE "run"
AfterSuccess(t, len) == "done"

\* process_repo_file: the mirror attempted after mirror i failed
NextMirror(i) == i + 1

\* One step of the process_repo_file task of source n.  read_repo_list opens
\* <repo_dir>/<n>: IsADirectoryError is not caught when the entry is a directory; an
\* empty list ends the loop at once.  Otherwise the next mirror is attempted with
\* download_index, whose outcome is out.
process_repo_file(n, out) ==
    /\ repo_task[n].st = "run"
    /\ LET t == repo_task[n]
           len == repo_mirrors[n]
           isDir == (t.dir = "custom" /\ repo_custom[n] = "dir")
           new == [dir |-> t.dir, i |-> t.next]
           tr == Append(t.tried, <<t.next, download_file_result(out)>>)
       IN  IF isDir \/ len = 0
           THEN /\ out = "ok"
                /\ repo_task' = [repo_task EXCEPT ![n].st = IF isDir THEN "raised" ELSE "done"]
                /\ cache' = cache
           ELSE /\ cache' = [cache EXCEPT ![n] = download_file_path(out, @, new)]
                /\ repo_task' = [repo_task EXCEPT ![n] =
                      IF download_file_result(out)
                      THEN [t EXCEPT !.ok = TRUE, !.tried = tr, !.st = AfterSuccess(t, len),
                                     !.next = NextMirror(t.next)]
                      ELSE [t EXCEPT !.tried = tr, !.next = NextMirror(t.next),
                                     !.st = IF NextMirror(t.next) > len THEN "done"
                                            ELSE "run"]]
    /\ UNCHANGED <<eng, repo_custom, repo_default, repo_mirrors, pc, next_page, packages,
                   apps_db, conn_db, in_tx, op, before, last, polled, nOps, nRestarts>>
    /\ UNCHANGED <<serveVars, instVars, moreVars>>

\* Operations a caller can queue that use the catalog.  OpenStore's Install never
\* looks at the catalog.
OpsOf(e) == IF e = "android" THEN {"UpdateCache", "Search", "Install"}
            ELSE {"UpdateCache", "Search"}

\* Operations of the Android service whose body, after the ping, only talks to the
\* container's session manager (and reads the catalog).
BackendOps == {"GetUpgradable", "UpgradePackages", "GetInstalledApps", "UninstallApp"}

\* "if not await ping_session_manager(self.verbose): return ..."
PeerAnswers_mutIgnore(ping) == TRUE
PeerAnswers(ping) == ping

\* ensure_populated: "if not row_count[0]"; OpenStore Search: "if count[0] == 0"
NeedsSync(rows) == Cardinality(rows) = 0

\* update_cache up to "await asyncio.gather(*tasks)": one task per name of
\* all_repo_files; fetch_all_apps up to the first page request of fetch_app_list.
TasksAtStart ==
    [n \in Names |->
        IF eng = "android" /\ n \in all_repo_files
        THEN [NoFetch EXCEPT !.st = "run", !.dir = RepoDir(n), !.next = 1,
                             !.count = TaskCount(n)]
        ELSE NoFetch]

\* A queued body starts: UpdateCache runs the sync; Search and Install first read the
\* row count and run the sync when it is zero, else go on to read the catalog.
\* Tasks left behind by a sync that raised are let finish before the next body.
op_start(o, ping) ==
    /\ pc = "idle"
    /\ nOps < MaxOps
    /\ o \in OpsOf(eng) \cup (IF eng = "android" THEN BackendOps ELSE {})
    /\ eng = "open" => ping
    /\ \A n \in Names : repo_task[n].st # "run"
    /\ nOps' = nOps + 1
    /\ LET sync == o = "UpdateCache" \/ (o \in OpsOf(eng) /\ NeedsSync(conn_db))
           met == IF eng = "open" THEN "none" ELSE IF ping THEN "ok" ELSE "down"
           o1 == [NoOp EXCEPT !.name = o, !.ping = met]
       IN  IF eng = "android" /\ ~PeerAnswers(ping)
           THEN /\ op' = [o1 EXCEPT !.out = "fail"]
                /\ UNCHANGED <<pc, repo_task, next_page, packages, before>>
           ELSE IF o \in BackendOps
           THEN /\ op' = o1
                /\ pc' = "call"
                /\ UNCHANGED <<repo_task, next_page, packages, before>>
           ELSE /\ op' = [o1 EXCEPT !.synced = sync,
                                 !.zero = (o # "UpdateCache" /\ Cardinality(conn_db) = 0)]
                /\ IF sync
                   THEN /\ pc' = "fetch"
                        /\ repo_task' = TasksAtStart
                        /\ next_page' = IF eng = "open" THEN 1 ELSE 0
                        /\ packages' = {}
                        /\ before' = [conn |-> conn_db, disk |-> apps_db]
                   ELSE /\ pc' = "read"
                        /\ UNCHANGED <<repo_task, next_page, packages, before>>
    /\ polled' = Cardinality(apps_db)
    /\ UNCHANGED <<eng, repo_custom, repo_default, repo_mirrors, cache, apps_db, conn_db,
                   in_tx, last, nRestarts>>
    /\ UNCHANGED <<serveVars, instVars, moreVars>>

\* OpenStoreInterface.init_db, called by the service's setup before the interface is
\* exported: "if count[0] == 0: await self.fetch_all_apps()".  No job has run yet.
init_db ==
    /\ pc = "idle"
    /\ op = NoOp
    /\ eng = "open"
    /\ NeedsSync(conn_db)
    /\ op' = [NoOp EXCEPT !.name = "init_db", !.synced = TRUE, !.zero = TRUE]
    /\ pc' = "fetch"
    /\ next_page' = 1
    /\ packages' = {}
    /\ before' = [conn |-> conn_db, disk |-> apps_db]
    /\ polled' = Cardinality(apps_db)
    /\ UNCHANGED <<eng, repo_custom, repo_default, repo_mirrors, repo_task, cache, apps_db,
                   conn_db, in_tx, last, nOps, nRestarts>>
    /\ UNCHANGED <<serveVars, instVars, moreVars>>

\* get_apps_info / compare_installed_with_repo, install_app, remove_app: the body
\* calls the session manager and returns what it got (ok: the call succeeded).
op_backend(ok) ==
    /\ pc = "call"
    /\ op' = [op EXCEPT !.backend = TRUE, !.out = IF ok THEN "true" ELSE "false"]
    /\ pc' = "idle"
    /\ UNCHANGED <<eng, repo_custom, repo_default, repo_mirrors, repo_task, next_page,
                   cache, packages, apps_db, conn_db, in_tx, before, last, polled, nOps,
                   nRestarts>>
    /\ UNCHANGED <<serveVars, instVars, moreVars>>

\* update_cache: overall_success = any(results)
overall_success_mutAll(ts) ==
    \A n \in Names : ts[n].st = "done" => ts[n].ok
overall_success(ts) ==
    \E n \in Names : ts[n].st = "done" /\ ts[n].ok

\* ensure_populated: "if not overall_success: return False" (and "except Exception:
\* return False"); the operation goes on to read only when this is true.
Populated(res) == res = "true"

\* What the operation does with the value of the sync: UpdateCache returns it
\* (OpenStore's turns an exception into false); Android's Search and Install stop
\* with the empty result / false unless ensure_populated is satisfied; OpenStore's
\* Search ignores it.  out = "none": the body goes on to read the catalog.
OpAfterSync(res) ==
    LET o == [op EXCEPT !.res = res]
    IN  IF op.name \in {"UpdateCache", "init_db"} THEN [o EXCEPT !.out = res]
        ELSE IF eng = "android" /\ ~Populated(res) THEN [o EXCEPT !.out = "fail"]
        ELSE o

\* The outcomes of a completed sync: per source the mirror that succeeded (0: none)
\* the pages fetched (OpenStore), whether the save committed.
Outs ==
    <<[n \in Names |-> IF repo_task[n].st = "done" /\ repo_task[n].ok
                       THEN Len(repo_task[n].tried) ELSE 0],
      IF eng = "open" THEN packages ELSE {},
      ~in_tx>>

\* The sync ends with res (true, false, raised).
SyncEnds(res) ==
    /\ op' = OpAfterSync(res)
    /\ pc' = IF OpAfterSync(res).out = "none" THEN "read" ELSE "idle"
    /\ last' = IF res = "raised" THEN NoSync
               ELSE [done |-> TRUE, outs |-> Outs, rows |-> conn_db]
    /\ repo_task' = IF res = "raised" THEN repo_task ELSE [n \in Names |-> NoFetch]
    /\ before' = [conn |-> {}, disk |-> {}]
    /\ packages' = {}

\* "results = await asyncio.gather(*tasks)" returns: every task is done.
update_cache_gather ==
    /\ eng = "android"
    /\ pc = "fetch"
    /\ \A n \in Names : repo_task[n].st \in {"none", "done"}
    /\ pc' = "parse"
    /\ UNCHANGED <<eng, repo_custom, repo_default, repo_mirrors, repo_task, next_page,
                   cache, packages, apps_db, conn_db, in_tx, op, before, last, polled,
                   nOps, nRestarts>>
    /\ UNCHANGED <<serveVars, instVars, moreVars>>

\* asyncio.gather raises the exception of a task; update_cache ends with it while
\* the other tasks run on.
update_cache_raises ==
    /\ eng = "android"
    /\ pc = "fetch"
    /\ \E n \in Names : repo_task[n].st = "raised"
    /\ SyncEnds("raised")
    /\ UNCHANGED <<eng, repo_custom, repo_default, repo_mirrors, next_page,
                   cache, apps_db, conn_db, in_tx, polled, nOps, nRestarts>>
    /\ UNCHANGED <<serveVars, instVars, moreVars>>

\* os.listdir(cache_dir): the directories in any order.
Listings == {o \in [1..Cardinality(Names) -> Names] : \A i, j \in DOMAIN o : o[i] = o[j] => i = j}

\* "if not os.path.exists(index_path) or not os.path.exists(url_path): continue"
Staged(n) == Whole(cache[n])

\* The package loop stands outside the try: an index that decodes and whose packages
\* lack "metadata" or "versions" raises out of process_indexes.
Malformed(n) == Staged(n) /\ index_kind[n] = "malformed"

\* The first directory of the listing whose package loop raises (0: none).
FirstRaising(order) ==
    LET bad == {i \in DOMAIN order : Malformed(order[i])}
    IN  IF bad = {} THEN 0 ELSE CHOOSE i \in bad : \A j \in bad : i <= j

\* The directories whose rows were built and whose two files were removed.
Consumed(order) ==
    {order[i] : i \in {j \in DOMAIN order :
                         /\ Staged(order[j])
                         /\ index_kind[order[j]] = "good"
                         /\ (FirstRaising(order) = 0 \/ j < FirstRaising(order))}}

\* process_indexes: every directory of CACHE_DIR that holds index-v2.json and
\* repo_url.txt gives its rows and the two files are removed; an index that does not
\* decode is skipped and left ("except Exception: continue"); an exception of the
\* package loop ends process_indexes and, uncaught, update_cache.
process_indexes(order) ==
    /\ pc = "parse"
    /\ order \in Listings
    /\ cache' = [n \in Names |-> IF n \in Consumed(order) THEN NoFile ELSE cache[n]]
    /\ IF FirstRaising(order) = 0
       THEN /\ packages' = {<<n, cache[n].dir, cache[n].i>> : n \in Consumed(order)}
            /\ pc' = "begin"
            /\ UNCHANGED <<op, last, repo_task, before>>
       ELSE SyncEnds("raised")
    /\ UNCHANGED <<eng, repo_custom, repo_default, repo_mirrors, next_page,
                   apps_db, conn_db, in_tx, polled, nOps, nRestarts>>
    /\ UNCHANGED <<serveVars, instVars, moreVars>>

PageOutcomes == {"next", "last", "empty", "error"}

\* fetch_app_list: one page request.  next / last: 200 with apps and a next url or
\* none; empty: 200 with no app kept and no next url; error: another status or an
\* exception (break).  fetch_all_apps saves "if apps", else returns False.
fetch_app_list(out) ==
    /\ eng = "open"
    /\ pc = "fetch"
    /\ out \in PageOutcomes
    /\ LET apps == IF out \in {"next", "last"}
                   THEN packages \cup {<<<<"app", next_page>>, "api", next_page>>} ELSE packages
           more == out = "next" /\ next_page < MaxPages
       IN  /\ packages' = apps
           /\ next_page' = IF more THEN next_page + 1 ELSE 0
           /\ IF more THEN UNCHANGED <<pc, op, last, repo_task, before>>
              ELSE IF apps # {} THEN pc' = "begin" /\ UNCHANGED <<op, last, repo_task, before>>
              ELSE SyncEnds("false")
    /\ UNCHANGED <<eng, repo_custom, repo_default, repo_mirrors, cache,
                   apps_db, conn_db, in_tx, polled, nOps, nRestarts>>
    /\ UNCHANGED <<serveVars, instVars, moreVars>>

\* save_packages_to_db / save_app_list: db.execute("BEGIN TRANSACTION;").  On a
\* connection that is still inside a transaction sqlite refuses it ("cannot start a
\* transaction within a transaction"): except Exception, return False.
save_begin ==
    /\ pc = "begin"
    /\ pc' = IF in_tx THEN "finish" ELSE "delete"
    /\ in_tx' = TRUE
    /\ UNCHANGED <<eng, repo_custom, repo_default, repo_mirrors, repo_task, next_page,
                   cache, packages, apps_db, conn_db, op, before, last, polled, nOps,
                   nRestarts>>
    /\ UNCHANGED <<serveVars, instVars, moreVars>>

\* What other connections read after a statement inside the transaction: the
\* committed table, as before.
VisibleToOthers_mutAutocommit(committed, mine) == mine
VisibleToOthers(committed, mine) == committed

\* "DELETE FROM apps;"
Emptied_mutKeep(table) == table
Emptied(table) == {}

\* The key of a row: (repository, package_id) / id.  The payload is the rest.
KeyOf(row) == row[1]

\* INSERT ... ON CONFLICT(repository, package_id) DO UPDATE: a row of the table
\* with the key of a new row is replaced by it.
Upsert(table, rows) ==
    {r \in table : \A q \in rows : KeyOf(q) # KeyOf(r)} \cup rows

\* db.execute("DELETE FROM apps;"); the insert is skipped "if packages" is empty.
save_delete ==
    /\ pc = "delete"
    /\ conn_db' = Emptied(conn_db)
    /\ apps_db' = VisibleToOthers(apps_db, Emptied(conn_db))
    /\ pc' = IF packages = {} THEN "commit" ELSE "insert"
    /\ UNCHANGED <<eng, repo_custom, repo_default, repo_mirrors, repo_task, next_page,
                   cache, packages, in_tx, op, before, last, polled, nOps, nRestarts>>
    /\ UNCHANGED <<serveVars, instVars, moreVars>>

\* The bulk insert.  It puts in all rows, or raises at some row (a value sqlite
\* cannot bind, a duplicate id) with the rows before it inserted: except Exception,
\* return False, with no rollback, so the transaction stays open.
save_insert(rows) ==
    /\ pc = "insert"
    /\ rows \subseteq packages
    /\ conn_db' = Upsert(conn_db, rows)
    /\ apps_db' = VisibleToOthers(apps_db, Upsert(conn_db, rows))
    /\ pc' = IF rows = packages THEN "commit" ELSE "finish"
    /\ UNCHANGED <<eng, repo_custom, repo_default, repo_mirrors, repo_task, next_page,
                   cache, packages, in_tx, op, before, last, polled, nOps, nRestarts>>
    /\ UNCHANGED <<serveVars, instVars, moreVars>>

\* await db.commit()
save_commit ==
    /\ pc = "commit"
    /\ apps_db' = conn_db
    /\ in_tx' = FALSE
    /\ pc' = "finish"
    /\ UNCHANGED <<eng, repo_custom, repo_default, repo_mirrors, repo_task, next_page,
                   cache, packages, conn_db, op, before, last, polled, nOps, nRestarts>>
    /\ UNCHANGED <<serveVars, instVars, moreVars>>

\* update_cache: cleanup_session, "return overall_success"; fetch_all_apps: "return
\* True" after save_app_list.  Neither looks at what the save returned.
sync_returns ==
    /\ pc = "finish"
    /\ SyncEnds(IF eng = "open" \/ overall_success(repo_task) THEN "true" ELSE "false")
    /\ UNCHANGED <<eng, repo_custom, repo_default, repo_mirrors, next_page,
                   cache, apps_db, conn_db, in_tx, polled, nOps, nRestarts>>
    /\ UNCHANGED <<serveVars, instVars, moreVars>>

\* search_packages / get_package_by_id / search_apps: the body reads table apps on
\* the service's connection and returns.
op_read ==
    /\ pc = "read"
    /\ op' = [op EXCEPT !.read = TRUE, !.out = "rows"]
    /\ pc' = "idle"
    /\ UNCHANGED <<eng, repo_custom, repo_default, repo_mirrors, repo_task, next_page,
                   cache, packages, apps_db, conn_db, in_tx, before, last, polled, nOps,
                   nRestarts>>
    /\ UNCHANGED <<serveVars, instVars, moreVars>>

\* Another connection to the catalog file reads the row count while a sync runs.
poll_count ==
    /\ pc \notin {"idle", "read", "call"}
    /\ polled' = Cardinality(apps_db)
    /\ UNCHANGED <<eng, repo_custom, repo_default, repo_mirrors, pc, repo_task, next_page,
                   cache, packages, apps_db, conn_db, in_tx, op, before, last, nOps,
                   nRestarts>>
    /\ UNCHANGED <<serveVars, instVars, moreVars>>

\* The daemon ends (idle shutdown, SIGINT: the worker and with it the running body
\* are cancelled, the connection is closed) and is started again.  CancelledError is
\* not an Exception: a download cut short leaves its partly written file.  Closing
\* the connection drops an open transaction.  CACHE_DIR and the committed table stay.
daemon_restart(cut) ==
    /\ nRestarts < MaxRestarts
    /\ nOps > 0
    /\ nRestarts' = nRestarts + 1
    /\ cut \subseteq {n \in Names : repo_task[n].st = "run" /\ repo_mirrors[n] > 0}
    /\ cache' = [n \in Names |-> IF n \in cut THEN PartialFile ELSE cache[n]]
    /\ repo_task' = [n \in Names |-> NoFetch]
    /\ next_page' = 0
    /\ conn_db' = apps_db
    /\ in_tx' = FALSE
    /\ pc' = "idle"
    /\ op' = NoOp
    /\ last' = NoSync
    /\ before' = [conn |-> {}, disk |-> {}]
    /\ packages' = {}
    /\ polled' = Cardinality(apps_db)
    /\ UNCHANGED <<eng, repo_custom, repo_default, repo_mirrors, apps_db, nOps>>
    /\ UNCHANGED <<serveVars, instVars, moreVars>>

SyncNext ==
    \/ \E o \in OpsOf("android") \cup BackendOps : \E ping \in BOOLEAN : op_start(o, ping)
    \/ init_db
    \/ \E ok \in BOOLEAN : op_backend(ok)
    \/ \E n \in Names : \E out \in Outcomes : process_repo_file(n, out)
    \/ update_cache_gather
    \/ update_cache_raises
    \/ \E order \in Listings : process_indexes(order)
    \/ \E out \in PageOutcomes : fetch_app_list(out)
    \/ save_begin
    \/ save_delete
    \/ \E rows \in SUBSET packages : save_insert(rows)
    \/ save_commit
    \/ sync_returns
    \/ op_read
    \/ poll_count
    \/ \E cut \in SUBSET Names : daemon_restart(cut)

SyncSpec == SyncInit /\ [][SyncNext]_vars

\* The F-Droid sync over mirrors that serve any mix of indexes: every source has its
\* default repo file with one mirror, and its index is good, does not decode
\* (garbled) or decodes to packages without "metadata" / "versions" (malformed).
ParseInit ==
    /\ ServeInit
    /\ InstQuiet
    /\ index_kind \in [Names -> IndexKinds]
    /\ resolver = NoResolve
    /\ apt = NoApt
    /\ click = NoClick
    /\ upgrade = NoUpgrade
    /\ eng = "android"
    /\ repo_custom = [n \in Names |-> "absent"]
    /\ repo_default = [n \in Names |-> "file"]
    /\ repo_mirrors = [n \in Names |-> 1]
    /\ pc = "idle"
    /\ repo_task = [n \in Names |-> NoFetch]
    /\ next_page = 0
    /\ cache = [n \in Names |-> NoFile]
    /\ packages = {}
    /\ apps_db = {}
    /\ conn_db = {}
    /\ in_tx = FALSE
    /\ op = NoOp
    /\ before = [conn |-> {}, disk |-> {}]
    /\ last = NoSync
    /\ polled = 0
    /\ nOps = 0
    /\ nRestarts = 0

ParseNext ==
    \/ \E o \in OpsOf("android") : \E ping \in BOOLEAN : op_start(o, ping)
    \/ \E n \in Names : \E out \in Outcomes : process_repo_file(n, out)
    \/ update_cache_gather
    \/ \E order \in Listings : process_indexes(order)
    \/ save_begin
    \/ save_delete
    \/ \E rows \in SUBSET packages : save_insert(rows)
    \/ save_commit
    \/ sync_returns
    \/ op_read

ParseSpec == ParseInit /\ [][ParseNext]_vars

----------------------------------------------------------------------------
(* Installed-state store of OpenStore: table installed_apps and the app
   directories under APPS_DIR *)

AppIds == {"x", "y", "z"}

InstInit == ServeInit /\ SyncQuiet /\ InstQuiet /\ MoreQuiet

\* "app_dir_exists = os.path.exists(app_dir) if app_dir else False"
app_dir_exists(id) == id \in app_dirs

\* "DELETE FROM installed_apps WHERE id = ?" and commit
Deleted_mutKeep(rows, id) == rows
Deleted(rows, id) == rows \ {id}

\* get_installed_app: the table after the call, and what the call returns
AfterGet(id) ==
    IF id \in installed /\ ~app_dir_exists(id) THEN Deleted(installed, id) ELSE installed
GetResult(id) ==
    IF id \in installed /\ app_dir_exists(id) THEN "info" ELSE "none"

\* The order of the scan: the order of insertion is not kept by the model, the ids
\* stand in the order x, y, z.
RowsBefore(a, b) == <<a, b>> \in {<<"x", "y">>, <<"x", "z">>, <<"y", "z">>}

\* The rows in the order the cursor of "SELECT ... FROM installed_apps" gives them
RECURSIVE RowsOf(_)
RowsOf(S) ==
    IF S = {} THEN <<>>
    ELSE LET r == CHOOSE x \in S : \A y \in S : x = y \/ RowsBefore(x, y)
         IN  <<r>> \o RowsOf(S \ {r})

\* No body of the queue is inside get_installed_apps (the bodies run one at a time).
NoListRunning == startRows.st # "run"

\* The body of Install from the check for an old version on: get_installed_app,
\* removal of the old directory, os.makedirs(app_dir), extract_click_package (which
\* can fail: return False) and save_installed_app (INSERT OR REPLACE).
Install(id, extracted) ==
    /\ NoListRunning
    /\ app_dirs' = app_dirs \cup {id}
    /\ installed' = IF extracted THEN AfterGet(id) \cup {id} ELSE AfterGet(id)
    /\ UNCHANGED <<cursor, listed, startRows, got_app>>
    /\ UNCHANGED <<serveVars, syncVars, moreVars>>

\* The body of UninstallApp: get_installed_app; "if not app: return False";
\* remove_installed_app; shutil.rmtree(app_dir).
UninstallApp(id) ==
    /\ NoListRunning
    /\ IF GetResult(id) = "info"
       THEN /\ installed' = Deleted(installed, id)
            /\ app_dirs' = app_dirs \ {id}
       ELSE /\ installed' = AfterGet(id)
            /\ app_dirs' = app_dirs
    /\ UNCHANGED <<cursor, listed, startRows, got_app>>
    /\ UNCHANGED <<serveVars, syncVars, moreVars>>

\* Something outside the daemon removes an app directory, between two calls.
dir_removed(id) ==
    /\ NoListRunning
    /\ id \in app_dirs
    /\ app_dirs' = app_dirs \ {id}
    /\ UNCHANGED <<installed, cursor, listed, startRows, got_app>>
    /\ UNCHANGED <<serveVars, syncVars, moreVars>>

\* get_installed_apps: the SELECT is executed.
get_installed_apps_select ==
    /\ NoListRunning
    /\ cursor' = RowsOf(installed)
    /\ listed' = <<>>
    /\ startRows' = [rows |-> installed, dirs |-> app_dirs, st |-> "run"]
    /\ UNCHANGED <<installed, app_dirs, got_app>>
    /\ UNCHANGED <<serveVars, syncVars, moreVars>>

\* get_installed_apps: one turn of "async for row in cursor".
get_installed_apps_row ==
    /\ startRows.st = "run"
    /\ cursor # <<>>
    /\ LET id == Head(cursor)
       IN  IF app_dir_exists(id)
           THEN /\ listed' = Append(listed, id)
                /\ installed' = installed
           ELSE /\ installed' = Deleted(installed, id)
                /\ listed' = listed
    /\ cursor' = Tail(cursor)
    /\ UNCHANGED <<app_dirs, startRows, got_app>>
    /\ UNCHANGED <<serveVars, syncVars, moreVars>>

\* get_installed_apps: "return installed_apps"
get_installed_apps_returns ==
    /\ startRows.st = "run"
    /\ cursor = <<>>
    /\ startRows' = [startRows EXCEPT !.st = "done"]
    /\ UNCHANGED <<installed, app_dirs, cursor, listed, got_app>>
    /\ UNCHANGED <<serveVars, syncVars, moreVars>>

\* get_installed_app(db, app_id)
get_installed_app(id) ==
    /\ NoListRunning
    /\ got_app' = [id |-> id, res |-> GetResult(id), n |-> 1 - got_app.n]
    /\ installed' = AfterGet(id)
    /\ UNCHANGED <<app_dirs, cursor, listed, startRows>>
    /\ UNCHANGED <<serveVars, syncVars, moreVars>>

InstNext ==
    \/ \E id \in AppIds : \E extracted \in BOOLEAN : Install(id, extracted)
    \/ \E id \in AppIds : UninstallApp(id)
    \/ \E id \in AppIds : dir_removed(id)
    \/ get_installed_apps_select
    \/ get_installed_apps_row
    \/ get_installed_apps_returns
    \/ \E id \in AppIds : get_installed_app(id)

InstSpec == InstInit /\ [][InstNext]_vars

----------------------------------------------------------------------------
(* Claims *)

ExecutingOn(s) == {j \in JobIds : jobs[j].svc = s /\ Executing(j)}
Resolved(j) == jobs[j].fut \in {"result", "exception"}
Stopped(s) == task_processor[s] = "exited"

\* C1: within one service at most one queued job body is executing in every
\* reachable state: the worker starts no body while another body of the same
\* service has neither returned nor raised.
C1_OneBodyAtATime ==
    \A s \in Services : Cardinality(ExecutingOn(s)) <= 1

\* A body is executing while another job waits in the same queue.
C1_Witness ==
    \E s \in Services : ExecutingOn(s) # {} /\ task_queue[s] # <<>>

\* C2: bodies start in the order of the puts (job ids are given in put order): no
\* job's body has started while a job put earlier on the same service has not.
C2_Fifo ==
    \A j, k \in JobIds :
        (j < k /\ Put(j) /\ jobs[j].svc = jobs[k].svc /\ Started(k)) => Started(j)

\* Two jobs of one service, both started.
C2_Witness ==
    \E j, k \in JobIds :
        j < k /\ Put(j) /\ jobs[j].svc = jobs[k].svc /\ Started(j) /\ Started(k)

\* C3: a job's body is never run twice and its future never set twice; the future
\* holds a result or an exception only once the job's own body has returned or
\* raised, and then it holds the outcome of that body, not of another; a body that
\* has returned or raised has its future set.
C3_ExactlyOnce ==
    \A j \in JobIds :
        /\ jobs[j].runs <= 1
        /\ jobs[j].sets <= 1
        /\ Resolved(j) <=> jobs[j].sets = 1
        /\ Resolved(j) <=> jobs[j].body \in {"returned", "raised"}
        /\ Resolved(j) => jobs[j].of = j
        /\ jobs[j].fut = "result" => jobs[j].body = "returned"
        /\ jobs[j].fut = "exception" => jobs[j].body = "raised"

\* Two jobs of one service, one resolved with its result, one with its exception.
C3_Witness ==
    \E j, k \in JobIds :
        /\ jobs[j].svc = jobs[k].svc
        /\ jobs[j].fut = "result" /\ jobs[j].of = j
        /\ jobs[k].fut = "exception" /\ jobs[k].of = k

\* C4: a body that raises does not end the worker and costs the jobs behind it
\* nothing.  In the step in which a body raises, the exception is set on that job's
\* own future, the worker is parked on the queue again with _running still true,
\* and the queue is left as it was.
C4_FailureKeepsWorker ==
    [][\A j \in JobIds :
         (jobs[j].body # "raised" /\ jobs'[j].body = "raised") =>
             /\ jobs'[j].fut = "exception"
             /\ jobs'[j].of = j
             /\ task_processor'[jobs[j].svc] = "parked"
             /\ running'[jobs[j].svc]
             /\ task_queue'[jobs[j].svc] = task_queue[jobs[j].svc]]_vars

\* A job has raised and a job put after it on the same service has been started.
C4_Witness ==
    \E j, k \in JobIds :
        j < k /\ jobs[j].svc = jobs[k].svc /\ jobs[j].body = "raised" /\ Started(k)

\* C5: once a service is stopped, no job that was put on its queue before the
\* stop has a pending future: each has a result, an exception or a cancellation, so
\* no caller is left waiting.
C5_StopResolvesHandles ==
    \A j \in JobIds :
        (Put(j) /\ ~jobs[j].late /\ Stopped(jobs[j].svc)) => jobs[j].fut # "pending"

\* A step of the model in which a countdown's sleep ends (idle_countdown): a countdown
\* leaves timers and it is neither a cancel by reset_idle_timer or by setup's finally
\* block nor the cancelling of all tasks.
Elapses ==
    /\ Len(timers') < Len(timers)
    /\ mgr' = mgr
    /\ sigint' = sigint
    /\ resetPending' = resetPending

\* A step in which the scheduled reset_idle_timer tasks run.
ResetRuns ==
    /\ resetPending /\ ~resetPending'
    /\ mgr' = mgr
    /\ sigint' = sigint

\* C6: every put on a queue and every get by a worker schedules a reset of the
\* shared idle timer (a reset is pending after the step), and a reset that runs
\* leaves exactly one countdown, a new one with the full timeout to go: the
\* outstanding one is cancelled.
C6_ActivityResets ==
    [][/\ (\E j \in JobIds : \/ ~Put(j) /\ Put(j)'
                             \/ ~Started(j) /\ Started(j)') => resetPending'
       /\ ResetRuns => /\ idle_timer' = "live"
                       /\ timers' = <<IdleTimeout>>
                       /\ sinceReset' = 0]_vars

\* The resets asked for by a put and a get have run: one fresh countdown.
C6_Witness ==
    /\ \E j \in JobIds : Started(j)
    /\ ~resetPending
    /\ timers = <<IdleTimeout>>
    /\ sinceReset = 0

\* C7: at most one countdown is pending (started, neither cancelled nor elapsed) in
\* every reachable state, whichever service the resets come from.
C7_OneCountdown ==
    Len(timers) <= 1

\* Jobs of both services have been put and started, their resets have run, and
\* one countdown is pending.
C7_Witness ==
    /\ \E j, k \in JobIds : /\ jobs[j].svc = "android" /\ Started(j)
                            /\ jobs[k].svc = "open" /\ Started(k)
    /\ ~resetPending
    /\ Len(timers) = 1

\* C8: a countdown elapses (and signals shutdown) only when a full timeout has
\* passed since reset_idle_timer last ran; so with every gap between resets
\* shorter than the timeout, shutdown is never signalled.
C8_NoShutdownWhileActive ==
    [][(Elapses \/ (~shutdown_event /\ shutdown_event')) =>
           sinceReset >= IdleTimeout]_vars

\* Shutdown has been signalled, a full timeout after the last reset, and jobs had
\* reset the timer before.
C8_Witness ==
    /\ shutdown_event
    /\ sinceReset = IdleTimeout
    /\ \E j \in JobIds : Started(j)

\* C9: a countdown that elapses sets shutdown_event, and shutdown_event, once set,
\* stays set: no reset and no later countdown changes it.
C9_ShutdownSticks ==
    [][/\ Elapses => shutdown_event'
       /\ shutdown_event => shutdown_event']_vars

\* After shutdown was signalled, a reset ran and a second countdown elapsed.
C9_Witness ==
    shutdown_event /\ refired

\* C10: when the daemon has come to its end, both services are stopped (no worker
\* left, no HTTP session open, no database open) and no countdown is pending,
\* whichever way setup was left.
C10_OrderlyShutdown ==
    mgr = "exited" =>
        /\ timers = <<>>
        /\ \A s \in Services : /\ task_processor[s] \in {"none", "exited"}
                               /\ ~session[s]
                               /\ db[s] # "open"

----------------------------------------------------------------------------
(* Claims on the catalog sync, under SyncSpec *)

SyncPcs == {"fetch", "parse", "begin", "delete", "insert", "commit", "finish"}

\* update_cache returns: the step of sync_returns in the Android engine.
UpdateCacheReturns ==
    /\ eng = "android"
    /\ pc = "finish"
    /\ pc' # "finish"
    /\ nRestarts' = nRestarts

\* Some mirror of source n answered an attempt of this sync with success.
Fetched(n) == \E k \in 1..Len(repo_task[n].tried) : repo_task[n].tried[k][2]

\* C11: when update_cache returns, the value is true exactly when the fetch of at
\* least one source succeeded; with no source configured, or with every source
\* failing, it is false.
C11_SuccessIffOneSource ==
    [][UpdateCacheReturns =>
          /\ op'.res \in {"true", "false"}
          /\ op'.res = "true" <=> \E n \in Names : Fetched(n)]_vars

\* A sync returned true with one source fetched and another source having failed
\* at every mirror.
C11_Witness ==
    /\ eng = "android"
    /\ last.done
    /\ op.res = "true"
    /\ \E n, m \in Names :
         /\ last.outs[1][n] > 0
         /\ last.outs[1][m] = 0
         /\ m \in all_repo_files
         /\ repo_mirrors[m] > 0

\* C12: the mirrors of a source are attempted in list order, one after the other;
\* nothing is attempted after a success; the task ends with success at the first
\* mirror that succeeds and with failure only after every mirror failed.
C12_MirrorsInOrder ==
    \A n \in Names :
        LET t == repo_task[n]
        IN  t.st \in {"run", "done"} =>
              /\ Len(t.tried) <= repo_mirrors[n]
              /\ \A k \in 1..Len(t.tried) : t.tried[k][1] = k
              /\ \A k \in 1..Len(t.tried) : k < Len(t.tried) => ~t.tried[k][2]
              /\ t.ok <=> (Len(t.tried) > 0 /\ t.tried[Len(t.tried)][2])
              /\ t.ok => t.st = "done"
              /\ (t.st = "done" /\ ~t.ok) => Len(t.tried) = repo_mirrors[n]
              /\ (t.st = "run" /\ repo_mirrors[n] > 0) => Len(t.tried) < repo_mirrors[n]

\* One source succeeded at its first mirror of two (the second was never tried),
\* another failed after both of its mirrors were tried.
C12_Witness ==
    \E n, m \in Names :
        /\ repo_task[n].st = "done" /\ repo_task[n].ok
        /\ Len(repo_task[n].tried) = 1 /\ repo_mirrors[n] = 2
        /\ repo_task[m].st = "done" /\ ~repo_task[m].ok
        /\ Len(repo_task[m].tried) = 2

\* The task of source n made an attempt in this step, and it failed.
FailedAttempt(n) ==
    /\ Len(repo_task'[n].tried) = Len(repo_task[n].tried) + 1
    /\ ~repo_task'[n].tried[Len(repo_task'[n].tried)][2]

\* C13: a download that fails leaves no output file of its own: after the attempt
\* the path holds nothing, or what it held before the attempt.
C13_FailedDownloadLeavesNoFile ==
    [][\A n \in Names : FailedAttempt(n) => cache'[n] \in {NoFile, cache[n]}]_vars

\* Mirrors (bad, good): the fetch succeeded with the second mirror and the index
\* in the cache is the second mirror's.
C13_Witness ==
    \E n \in Names :
        /\ repo_task[n].st = "done" /\ repo_task[n].ok
        /\ repo_task[n].tried = <<<<1, FALSE>>, <<2, TRUE>>>>
        /\ cache[n] = [dir |-> repo_task[n].dir, i |-> 2]

\* C14: a sync has exactly one fetch task per name that is a repo file in the
\* default or the override directory; a name in both is read from the override
\* directory; the indexes are parsed only when every task has finished.
C14_OneTaskPerName ==
    (eng = "android" /\ pc \in SyncPcs) =>
        /\ \A n \in Names :
             /\ repo_task[n].st # "none" <=>
                   (repo_custom[n] = "file" \/ repo_default[n] = "file")
             /\ repo_task[n].st # "none" => repo_task[n].count = 1
             /\ (repo_custom[n] = "file" /\ repo_default[n] = "file") =>
                   repo_task[n].dir = "custom"
        /\ pc # "fetch" => \A n \in Names : repo_task[n].st \in {"none", "done"}

\* Parsing is about to start: the name in both directories was fetched from the
\* override definition, the name only in the default directory from the default.
C14_Witness ==
    /\ eng = "android"
    /\ pc = "parse"
    /\ \E n, m \in Names :
         /\ repo_custom[n] = "file" /\ repo_default[n] = "file"
         /\ repo_task[n].st = "done" /\ repo_task[n].dir = "custom"
         /\ repo_custom[m] = "absent" /\ repo_default[m] = "file"
         /\ repo_task[m].st = "done" /\ repo_task[m].dir = "default"
         /\ Len(repo_task[n].tried) > 0 /\ Len(repo_task[m].tried) > 0

\* C15: a reader on another connection that counts the rows while a replace runs
\* sees the number of rows before the replace or, once it committed, the number of
\* rows given to it; never the emptied or the partly filled table.
C15_ReplaceAtomicForReaders ==
    pc \in SyncPcs =>
        \/ polled = Cardinality(before.disk)
        \/ pc = "finish" /\ ~in_tx /\ polled = Cardinality(packages)

\* A replace of a non-empty catalog by one of another size has committed and the
\* reader has seen the new number of rows.
C15_Witness ==
    /\ pc = "finish"
    /\ ~in_tx
    /\ before.disk # {}
    /\ Cardinality(packages) # Cardinality(before.disk)
    /\ polled = Cardinality(packages)

\* C16: after a replace that failed, what the service reads is the snapshot stored
\* before it: whenever a body is about to count or read the rows, its connection
\* shows the committed table.
C16_FailedReplaceKeepsSnapshot ==
    pc \in {"idle", "read"} => conn_db = apps_db

\* In a daemon that was not restarted, a sync ends and reports failure, its save (if
\* one ran) having completed.
SyncFails ==
    /\ nRestarts = 0
    /\ pc \in SyncPcs
    /\ pc' \in {"idle", "read"}
    /\ nRestarts' = nRestarts
    /\ op'.res = "false"
    /\ ~in_tx'

\* C17: a sync that reports failure leaves the catalog at the snapshot it had when
\* the sync started.
C17_FailedSyncKeepsCatalog ==
    [][SyncFails => (apps_db' = before.disk /\ conn_db' = before.conn)]_vars

\* C18: a search or install runs the sync exactly when the catalog is empty, and
\* when that sync does not succeed it fails without reading the catalog.
C18_EnsurePopulated ==
    (op.name \in {"Search", "Install"} /\ pc = "idle") =>
        /\ op.synced <=> op.zero
        /\ (op.synced /\ op.res # "true") => (~op.read /\ op.out = "fail")

\* A sync ends with success and its rows saved, as did the completed sync before
\* it, with the same outcomes (the same mirror answering for each source, the same
\* pages).
SameSyncAgain ==
    /\ last.done
    /\ last'.done
    /\ last'.outs = last.outs
    /\ last.outs[3]
    /\ eng = "android" => \E n \in Names : last.outs[1][n] > 0

\* C19: running the sync again with the same outcomes leaves the same catalog.
C19_SyncIdempotent ==
    [][SameSyncAgain => last'.rows = last.rows]_vars

----------------------------------------------------------------------------
(* Claims on the installed-state store, under InstSpec *)

Range(q) == {q[i] : i \in 1..Len(q)}

ListReturns == startRows.st = "run" /\ startRows'.st = "done"

GetReturns == got_app'.n # got_app.n

\* C20: get_installed_apps returns exactly the records whose app directory exists
\* and deletes every record whose directory is missing, so the number of rows
\* drops by the number of such records and none of them remains; get_installed_app
\* returns none and deletes the record when its directory is missing, returns the
\* record when the directory exists, and touches no other record.
C20_SelfHealingOnRead ==
    [][/\ ListReturns =>
            LET kept == startRows.rows \cap startRows.dirs
                missing == startRows.rows \ startRows.dirs
            IN  /\ Range(listed') = kept
                /\ Len(listed') = Cardinality(kept)
                /\ installed' = kept
                /\ Cardinality(installed') = Cardinality(startRows.rows) - Cardinality(missing)
                /\ \A id \in installed' : app_dir_exists(id)'
       /\ GetReturns =>
            LET id == got_app'.id
            IN  /\ (id \in installed /\ id \notin app_dirs) =>
                      (got_app'.res = "none" /\ installed' = installed \ {id})
                /\ (id \in installed /\ id \in app_dirs) =>
                      (got_app'.res = "info" /\ installed' = installed)
                /\ id \notin installed => (got_app'.res = "none" /\ installed' = installed)
      ]_vars

\* A list() call has just returned one record and pruned another whose directory
\* was missing, after a get() that returned none for a record without directory.
C20_Witness ==
    /\ startRows.st = "done"
    /\ listed # <<>>
    /\ installed = Range(listed)
    /\ startRows.rows \ startRows.dirs # {}
    /\ got_app.res = "none"
    /\ got_app.id \in AppIds
    /\ got_app.id \notin installed
    /\ got_app.id \notin app_dirs

----------------------------------------------------------------------------
(* Claims on the exposed operations and the two services, under Spec *)

\* C26: a job body enqueues no further job on the queue of its own service: no job
\* is the child of another job.
C26_OneJobPerRequest ==
    \A j \in JobIds : jobs[j].child = 0

\* A step of the worker of service s or of the body it runs.
WorkerStep(s) ==
    \/ process_task_queue_get(s)
    \/ ensure_session(s)
    \/ \E close \in BOOLEAN : task_returns(s, close)
    \/ task_raises(s)

\* The serializer state of service t is left as it is.
SerializerUnchanged(t) ==
    /\ task_queue'[t] = task_queue[t]
    /\ current'[t] = current[t]
    /\ task_processor'[t] = task_processor[t]
    /\ \A j \in JobIds : jobs[j].svc = t => jobs'[j] = jobs[j]

\* C27: the services progress independently.  A step of one service's worker or
\* body leaves the other service's queue, worker and jobs as they are; a parked
\* worker with an item queued can take it, and a body that can finish can return,
\* whatever the other service is doing.
C27_ServicesIndependent ==
    [][\A s \in Services :
          /\ WorkerStep(s) => \A t \in Services \ {s} : SerializerUnchanged(t)
          /\ (mgr # "exited" /\ running[s] /\ task_processor[s] = "parked"
                /\ task_queue[s] # <<>>) => ENABLED process_task_queue_get(s)
          /\ (mgr # "exited" /\ task_processor[s] = "busy" /\ current[s] # NoItem
                /\ jobs[current[s][1]].body = "running") => ENABLED task_returns(s, FALSE)
      ]_vars

\* A job of OpenStore has been put, executed and completed while a job of the
\* Android service put before it is still executing.
C27_Witness ==
    \E j, k \in JobIds :
        /\ j < k
        /\ jobs[j].svc = "android" /\ jobs[j].body = "running"
        /\ current["android"] = <<j, j>>
        /\ jobs[k].svc = "open" /\ jobs[k].body = "returned" /\ jobs[k].fut = "result"

----------------------------------------------------------------------------
(* Claims on the exposed operations and the catalog, under SyncSpec *)

\* C23: no exposed operation ends by raising: whatever fails inside, the body
\* returns false or an empty result.
C23_NoRawError ==
    op.out # "raised"

\* C24: when the session manager does not answer the ping, the operation of the
\* Android service returns its failure value at once: it runs no sync, reads no
\* catalog row, makes no download and no call of the session manager, and the
\* catalog, the staged files and the fetch tasks are as before.
C24_PeerUnavailable ==
    [][op'.ping = "down" =>
          /\ op'.out = "fail"
          /\ ~op'.synced /\ ~op'.read /\ ~op'.backend
          /\ pc' = "idle"
          /\ nOps' # nOps =>
                UNCHANGED <<apps_db, conn_db, in_tx, cache, repo_task, packages>>
      ]_vars

\* UninstallApp met a session manager that did not answer and returned false, with
\* rows in the catalog.
C24_Witness ==
    /\ eng = "android"
    /\ op.name = "UninstallApp"
    /\ op.ping = "down"
    /\ op.out = "fail"
    /\ apps_db # {}

\* C28: once the daemon has stopped (and is up again, idle) no partly written
\* index is in the cache directory.
C28_NoPartialFiles ==
    (pc = "idle" /\ \A n \in Names : repo_task[n].st # "run") =>
        \A n \in Names : cache[n] # PartialFile

OneRowPerKey(table) == \A r, q \in table : KeyOf(r) = KeyOf(q) => r = q
KeysOf(table) == {KeyOf(r) : r \in table}

\* C29: the catalog holds at most one row per key, and the commit of a replace
\* leaves exactly the rows given to it: the same keys with the new payloads, and
\* no row of the snapshot before.
C29_ReplacedWholesale ==
    [][/\ OneRowPerKey(apps_db') /\ OneRowPerKey(conn_db')
       /\ (pc = "commit" /\ pc' = "finish") =>
             (KeysOf(apps_db') = KeysOf(packages) /\ apps_db' = packages)
      ]_vars

\* A replace has committed over a snapshot that held a row of a source now absent
\* from the entries and a row whose key is kept with another payload.
C29_Witness ==
    /\ pc = "finish"
    /\ ~in_tx
    /\ packages # {}
    /\ apps_db = packages
    /\ \E r \in before.disk : KeyOf(r) \notin KeysOf(packages)
    /\ \E r \in before.disk : \E q \in packages : KeyOf(r) = KeyOf(q) /\ r # q

----------------------------------------------------------------------------
(* The upgrade resolvers: compare_installed_with_repo (F-Droid) and the body of
   OpenStoreInterface.GetUpgradable, for one installed app *)

MaxRows == 2
MaxVariants == 2

\* Version strings: "1.0" and "1.00" are different strings for the same number.
VersionNames == {"1.0", "1.00", "1.1"}

SeqsUpTo(S, n) == UNION {[1..k -> S] : k \in 0..n}

\* "SELECT ... FROM apps WHERE package_id = ?": one row per repository that carries
\* the package, each with the version of its package column.
RowsOfPackage ==
    {rows \in SeqsUpTo([repository : Names, version : VersionNames], MaxRows) :
        \A i, j \in DOMAIN rows : rows[i].repository = rows[j].repository => i = j}

\* app_details.get('downloads', [])
Downloads ==
    SeqsUpTo([channel : {"xenial", "focal", "noble"},
              architecture : {"arm64", "armhf", "all"},
              revision : {1, 2}, version : {"1.0", "1.1"}], MaxVariants)

NoCandidate == [emitted |-> FALSE, available_version |-> "", of |-> ""]

\* The installed app, what the catalog holds for it, and no result yet.  "I": no app
\* is installed yet, Install is about to choose among the downloads for the system
\* architecture (app.architecture), and GetUpgradable runs on the record it saves.
ResolverInputs(policy) ==
    IF policy = "A"
    THEN [st : {"in"}, policy : {"A"}, app : [version : VersionNames],
          entries : RowsOfPackage, out : {NoCandidate}]
    ELSE IF policy = "B"
    THEN [st : {"in"}, policy : {"B"},
          app : [version : {"1.0", "1.1"}, channel : {"focal", "noble"},
                 architecture : {"arm64"}],
          entries : Downloads, out : {NoCandidate}]
    ELSE [st : {"install"}, policy : {"I"},
          app : {[version |-> "", channel |-> "", architecture |-> "arm64"]},
          entries : Downloads, out : {NoCandidate}]

ResolveInit ==
    /\ ServeInit
    /\ SyncQuiet
    /\ InstQuiet
    /\ index_kind = [n \in Names |-> "good"]
    /\ apt = NoApt
    /\ click = NoClick
    /\ upgrade = NoUpgrade
    /\ \/ resolver \in ResolverInputs("A")
       \/ resolver \in ResolverInputs("B")
       \/ resolver \in ResolverInputs("I")

\* "for row in rows: ... if repo_version != current_version: upgradable.append(...);
\* break": the first row whose version string differs gives the candidate.
upgradable_info(current_version, rows) ==
    LET differ == {i \in DOMAIN rows : rows[i].version # current_version}
        first == CHOOSE i \in differ : \A j \in differ : i <= j
    IN  IF differ = {} THEN NoCandidate
        ELSE [emitted |-> TRUE, available_version |-> rows[first].version,
              of |-> rows[first].repository]

compare_installed_with_repo ==
    /\ resolver.st = "in"
    /\ resolver.policy = "A"
    /\ resolver' = [resolver EXCEPT !.st = "out",
                       !.out = upgradable_info(resolver.app.version, resolver.entries)]
    /\ UNCHANGED <<index_kind, apt, click, upgrade>>
    /\ UNCHANGED <<serveVars, syncVars, instVars>>

\* "d.get('architecture') == architecture or d.get('architecture') == 'all'"
Compatible_mutAny(d, architecture) == TRUE
Compatible(d, architecture) == d.architecture = architecture \/ d.architecture = "all"

\* The positions of the downloads among which the latest is looked for:
\* channel_downloads if there are any, else focal_downloads, else all compatible.
ChosenSubset(app, downloads) ==
    LET compatible_downloads ==
            {i \in DOMAIN downloads : Compatible(downloads[i], app.architecture)}
        channel_downloads ==
            {i \in compatible_downloads : downloads[i].channel = app.channel}
        focal_downloads ==
            {i \in compatible_downloads : downloads[i].channel = "focal"}
    IN  IF channel_downloads # {} THEN channel_downloads
        ELSE IF focal_downloads # {} THEN focal_downloads
        ELSE compatible_downloads

\* max(..., key=lambda x: int(x.get('revision', 0))): the first of the downloads of
\* the greatest revision.
latest_download(subset, downloads) ==
    LET top == {i \in subset : \A j \in subset :
                                  downloads[j].revision <= downloads[i].revision}
    IN  CHOOSE i \in top : \A j \in top : i <= j

\* "if not compatible_downloads: continue"; "if latest_version != current_version"
app_info(app, downloads) ==
    LET subset == ChosenSubset(app, downloads)
        latest == downloads[latest_download(subset, downloads)]
    IN  IF subset = {} \/ latest.version = app.version THEN NoCandidate
        ELSE [emitted |-> TRUE, available_version |-> latest.version,
              of |-> latest.channel]

\* find_compatible_download(downloads, system_arch): the position of the first focal
\* download of the system architecture or 'all', else of the first download of
\* that architecture or 'all' (0: None).
find_compatible_download(downloads, system_arch) ==
    LET arch == {i \in DOMAIN downloads : Compatible(downloads[i], system_arch)}
        focal == {i \in arch : downloads[i].channel = "focal"}
        from == IF focal # {} THEN focal ELSE arch
    IN  IF arch = {} THEN 0 ELSE CHOOSE i \in from : \A j \in from : i <= j

\* Install up to save_installed_app, everything after the choice succeeding: the
\* record saved holds version, channel and architecture of the chosen download.
\* "if not compatible_download: return False"
install_task ==
    /\ resolver.st = "install"
    /\ LET i == find_compatible_download(resolver.entries, resolver.app.architecture)
       IN  resolver' =
             IF i = 0 THEN [resolver EXCEPT !.st = "failed"]
             ELSE [resolver EXCEPT
                     !.st = "in",
                     !.app = [version |-> resolver.entries[i].version,
                              channel |-> resolver.entries[i].channel,
                              architecture |-> resolver.entries[i].architecture]]
    /\ UNCHANGED <<index_kind, apt, click, upgrade>>
    /\ UNCHANGED <<serveVars, syncVars, instVars>>

GetUpgradable ==
    /\ resolver.st = "in"
    /\ resolver.policy \in {"B", "I"}
    /\ resolver' = [resolver EXCEPT !.st = "out",
                       !.out = app_info(resolver.app, resolver.entries)]
    /\ UNCHANGED <<index_kind, apt, click, upgrade>>
    /\ UNCHANGED <<serveVars, syncVars, instVars>>

ResolveNext ==
    \/ compare_installed_with_repo
    \/ install_task
    \/ GetUpgradable

ResolveSpec == ResolveInit /\ [][ResolveNext]_vars

----------------------------------------------------------------------------
(* apt.py: update_cache and install_package wait for one aptkit transaction *)

WaitTimeout == 300
AptTick == 100
MaxSignals == 2

FinalStates == {"exit-success", "exit-failed", "exit-cancelled"}

\* The future has no result.
Pending == [variant |-> FALSE, value |-> "none"]

\* A call was made: it waits with no signal received and no time gone.
AptInit ==
    /\ ServeInit
    /\ SyncQuiet
    /\ InstQuiet
    /\ index_kind = [n \in Names |-> "good"]
    /\ resolver = NoResolve
    /\ click = NoClick
    /\ upgrade = NoUpgrade
    /\ apt = [st |-> "none", call |-> "none", future |-> Pending, sets |-> 0,
              exit |-> "exit-unfinished", nProps |-> 0, finished |-> FALSE,
              elapsed |-> 0, cancels |-> 0, ret |-> "none"]

AptUnchanged == UNCHANGED <<index_kind, resolver, click, upgrade>> /\ UNCHANGED <<serveVars, syncVars, instVars>>

\* The call reaches "await transaction_interface.call_run()" with both handlers
\* connected, or an exception before that: "except Exception: ret = False", then
\* "finally": update_cache disconnects "if bus", install_package calls
\* bus.disconnect() on None when the connection itself failed.
apt_call(call, started, connected) ==
    /\ apt.st = "none"
    /\ call \in {"update_cache", "install_package"}
    /\ started => connected
    /\ apt' = IF started THEN [apt EXCEPT !.st = "wait", !.call = call]
              ELSE [apt EXCEPT !.st = "returned", !.call = call,
                               !.ret = IF call = "install_package" /\ ~connected
                                       THEN "raised" ELSE "false"]
    /\ AptUnchanged

\* "if not finished_future.done(): finished_future.set_result(...)"
set_result(a, payload) ==
    IF a.future = Pending THEN [a EXCEPT !.future = payload, !.sets = a.sets + 1] ELSE a

\* The exit state the transaction can announce next: one transaction ends in one
\* final state.
Announces(value) ==
    \/ value = "exit-unfinished" /\ apt.exit = "exit-unfinished"
    \/ value \in FinalStates /\ apt.exit \in {"exit-unfinished", value}

\* PropertyChanged("ExitState", value), signature sv: the handler gets a Variant, and
\* a Variant is unequal to every str, "exit-unfinished" included.
on_property_changed(value) ==
    /\ apt.st = "wait"
    /\ apt.nProps < MaxSignals
    /\ ~apt.finished
    /\ Announces(value)
    /\ apt' = [set_result(apt, [variant |-> TRUE, value |-> value])
                  EXCEPT !.nProps = apt.nProps + 1, !.exit = value]
    /\ AptUnchanged

\* Finished(exit_state), signature s: the handler gets a str.
on_finished(exit_state) ==
    /\ apt.st = "wait"
    /\ ~apt.finished
    /\ exit_state \in FinalStates
    /\ Announces(exit_state)
    /\ apt' = [set_result(apt, [variant |-> FALSE, value |-> exit_state])
                  EXCEPT !.finished = TRUE, !.exit = exit_state]
    /\ AptUnchanged

\* Time passes in asyncio.wait_for(finished_future, timeout=300).
apt_tick ==
    /\ apt.st = "wait"
    /\ apt.future = Pending
    /\ apt.elapsed < WaitTimeout
    /\ apt' = [apt EXCEPT !.elapsed = IF apt.elapsed + AptTick > WaitTimeout
                                      THEN WaitTimeout ELSE apt.elapsed + AptTick]
    /\ AptUnchanged

\* "except asyncio.TimeoutError: await transaction_interface.call_cancel();
\* ret = False"
apt_timeout ==
    /\ apt.st = "wait"
    /\ apt.future = Pending
    /\ apt.elapsed = WaitTimeout
    /\ apt' = [apt EXCEPT !.st = "returned", !.cancels = apt.cancels + 1, !.ret = "false"]
    /\ AptUnchanged

\* wait_for returns the result: "if exit_state.value != 'exit-success': ret = False".
\* A str has no attribute value: AttributeError, "except Exception: ret = False".
apt_returns ==
    /\ apt.st = "wait"
    /\ apt.future # Pending
    /\ apt' = [apt EXCEPT !.st = "returned",
                          !.ret = IF apt.future.variant /\ apt.future.value = "exit-success"
                                  THEN "true" ELSE "false"]
    /\ AptUnchanged

AptNext ==
    \/ \E call \in {"update_cache", "install_package"} :
          \E started, connected \in BOOLEAN : apt_call(call, started, connected)
    \/ \E value \in FinalStates \cup {"exit-unfinished"} : on_property_changed(value)
    \/ \E exit_state \in FinalStates : on_finished(exit_state)
    \/ apt_tick
    \/ apt_timeout
    \/ apt_returns

AptSpec == AptInit /\ [][AptNext]_vars

----------------------------------------------------------------------------
(* OpenStore Install: the body of _install_task on the disk and the installed
   record of one package *)

ClickVersions == {"1.0", "1.1"}

\* The installed record, APPS_DIR/<id> and the desktop entries of the package.
\* files holds the versions whose files lie in the directory, and "torn" for
\* what an interrupted extractall left there.
Installation(c) == [rec |-> c.rec, exists |-> c.exists, files |-> c.files, desktop |-> c.desktop]

ClickInit ==
    /\ ServeInit
    /\ SyncQuiet
    /\ InstQuiet
    /\ index_kind = [n \in Names |-> "good"]
    /\ resolver = NoResolve
    /\ apt = NoApt
    /\ upgrade = NoUpgrade
    /\ click = [pc |-> "idle", rec |-> "none", exists |-> FALSE, files |-> {},
                desktop |-> "none", new |-> "none", ret |-> "none",
                was |-> [rec |-> "none", exists |-> FALSE, files |-> {}, desktop |-> "none"]]

ClickUnchanged == UNCHANGED <<index_kind, resolver, apt, upgrade>> /\ UNCHANGED <<serveVars, syncVars, instVars>>

\* Install is called; get_app_details and find_compatible_download give the
\* download of version v, or one of the early returns gives False.
install_lookup ==
    /\ click.pc \in {"idle", "returned"}
    /\ \E v \in ClickVersions, found \in BOOLEAN :
         click' = IF found
                  THEN [click EXCEPT !.pc = "lookup", !.new = v, !.ret = "none",
                                     !.was = Installation(click)]
                  ELSE [click EXCEPT !.pc = "returned", !.new = "none", !.ret = "false",
                                     !.was = Installation(click)]
    /\ ClickUnchanged

download_app ==
    /\ click.pc = "lookup"
    /\ \E ok \in BOOLEAN :
         click' = IF ok THEN [click EXCEPT !.pc = "downloaded"]
                        ELSE [click EXCEPT !.pc = "returned", !.ret = "false"]
    /\ ClickUnchanged

\* get_installed_app reports the record only if its directory exists and deletes
\* the record otherwise; for an old installation the desktop entries are removed
\* and the directory is removed unless rmtree fails (logged); then makedirs.
remove_old_app ==
    /\ click.pc = "downloaded"
    /\ \E removed \in BOOLEAN :
         LET old_app == click.rec # "none" /\ click.exists
         IN  click' = [click EXCEPT
                 !.pc = "cleaned",
                 !.rec = IF old_app THEN @ ELSE "none",
                 !.desktop = IF old_app THEN "none" ELSE @,
                 !.files = IF old_app /\ removed THEN {} ELSE @,
                 !.exists = TRUE]
    /\ ClickUnchanged

\* ar fails or data.tar.gz is missing: nothing is written; extractall raises
\* TarError: part of the archive is written; each returns None and Install
\* returns False.
extract_click_package ==
    /\ click.pc = "cleaned"
    /\ \E res \in {"ok", "ar_fails", "tar_fails"} :
         click' = CASE res = "ok" ->
                         [click EXCEPT !.pc = "extracted", !.files = @ \cup {click.new}]
                    [] res = "ar_fails" ->
                         [click EXCEPT !.pc = "returned", !.ret = "false"]
                    [] res = "tar_fails" ->
                         [click EXCEPT !.pc = "returned", !.ret = "false",
                                       !.files = @ \cup {"torn"}]
    /\ ClickUnchanged

\* process_desktop_files writes the entries of the extracted files, then
\* save_installed_app replaces the record and commits, or fails and returns False.
save_installed_app ==
    /\ click.pc = "extracted"
    /\ \E saved \in BOOLEAN :
         click' = [click EXCEPT
                 !.pc = "returned",
                 !.desktop = click.new,
                 !.rec = IF saved THEN click.new ELSE @,
                 !.ret = IF saved THEN "true" ELSE "false"]
    /\ ClickUnchanged

ClickNext ==
    \/ install_lookup
    \/ download_app
    \/ remove_old_app
    \/ extract_click_package
    \/ save_installed_app

ClickSpec == ClickInit /\ [][ClickNext]_vars

----------------------------------------------------------------------------
(* Android UpgradePackages: the body of _upgrade_packages_task *)

MaxUpgradeList == 2

\* get_upgradable_packages: one row per package id.
Upgradables == {u \in SeqsUpTo(AppIds, MaxUpgradeList) :
                   \A a, b \in 1..Len(u) : u[a] = u[b] => a = b}

UpgradeInit ==
    /\ ServeInit
    /\ SyncQuiet
    /\ InstQuiet
    /\ index_kind = [n \in Names |-> "good"]
    /\ resolver = NoResolve
    /\ apt = NoApt
    /\ click = NoClick
    /\ upgrade = [pc |-> "idle", ping |-> FALSE, upgradables |-> <<>>, upgrade_list |-> <<>>,
                  i |-> 0, attempted |-> {}, downloaded |-> {}, installed |-> {},
                  session |-> FALSE,
                  ret |-> "none"]

UpgradeUnchanged == UNCHANGED <<index_kind, resolver, apt, click>> /\ UNCHANGED <<serveVars, syncVars, instVars>>

\* The body up to the loop: the ping gate, the candidates, the list (all the
\* candidates when the caller's list is empty), True for an empty list.
upgrade_packages_task ==
    /\ upgrade.pc \in {"idle", "returned"}
    /\ \E package_ids \in SeqsUpTo(AppIds, MaxUpgradeList), ups \in Upgradables, ping \in BOOLEAN :
         LET list == IF package_ids = <<>> THEN ups ELSE package_ids
             u == [upgrade EXCEPT !.ping = ping, !.upgradables = ups, !.upgrade_list = <<>>,
                                  !.i = 0, !.attempted = {}, !.downloaded = {},
                                  !.installed = {}, !.ret = "none"]
         IN  upgrade' = IF ~ping THEN [u EXCEPT !.pc = "returned", !.ret = "false"]
                        ELSE IF list = <<>>
                             THEN [u EXCEPT !.pc = "returned", !.ret = "true"]
                             ELSE [u EXCEPT !.pc = "loop", !.upgrade_list = list, !.i = 1,
                                            !.session = TRUE]
    /\ UpgradeUnchanged

\* One package_id of the list: no matching row, nothing happens; download_file
\* fails, continue; install_app fails or anything raises, return False; else the
\* package is installed.
upgrade_package ==
    /\ upgrade.pc = "loop"
    /\ upgrade.i <= Len(upgrade.upgrade_list)
    /\ LET package_id == upgrade.upgrade_list[upgrade.i]
       IN  IF package_id \notin Range(upgrade.upgradables)
           THEN upgrade' = [upgrade EXCEPT !.i = @ + 1]
           ELSE \E res \in {"ok", "download_fails", "install_fails", "raises"} :
                  upgrade' =
                    CASE res = "ok" ->
                           [upgrade EXCEPT !.i = @ + 1,
                                           !.attempted = @ \cup {package_id},
                                           !.downloaded = @ \cup {package_id},
                                           !.installed = @ \cup {package_id}]
                      [] res = "download_fails" ->
                           [upgrade EXCEPT !.i = @ + 1,
                                           !.attempted = @ \cup {package_id}]
                      [] res = "install_fails" ->
                           [upgrade EXCEPT !.pc = "returned", !.ret = "false",
                                           !.attempted = @ \cup {package_id},
                                           !.downloaded = @ \cup {package_id}]
                      [] res = "raises" ->
                           [upgrade EXCEPT !.pc = "returned", !.ret = "false",
                                           !.attempted = @ \cup {package_id}]
    /\ UpgradeUnchanged

\* After the loop: cleanup_session, return True.
upgrade_returns ==
    /\ upgrade.pc = "loop"
    /\ upgrade.i > Len(upgrade.upgrade_list)
    /\ upgrade' = [upgrade EXCEPT !.pc = "returned", !.ret = "true", !.session = FALSE]
    /\ UpgradeUnchanged

UpgradeNext ==
    \/ upgrade_packages_task
    \/ upgrade_package
    \/ upgrade_returns

UpgradeSpec == UpgradeInit /\ [][UpgradeNext]_vars

----------------------------------------------------------------------------
(* Claims about corrupt indexes, under ParseSpec *)

\* The sources whose staged index is a good one.
GoodStaged == {n \in Names : Staged(n) /\ index_kind[n] = "good"}

\* C30: when the indexes are parsed and at least one good index is staged, parsing
\* does not end the sync, and the rows staged are exactly the rows of the good
\* indexes, whatever the other sources' indexes are.
C30_CorruptionIsolated ==
    [][(pc = "parse" /\ GoodStaged # {})
       => /\ pc' = "begin"
          /\ packages' = {<<n, cache[n].dir, cache[n].i>> : n \in GoodStaged}]_vars

----------------------------------------------------------------------------
(* Claims about the upgrade resolvers, under ResolveSpec *)

PolicyReturned(policy) == resolver.st = "out" /\ resolver.policy = policy

\* C21: for an installed package with a catalog entry (the first match when several
\* repositories carry it), a candidate is emitted exactly when the installed version
\* string differs from that entry's version string, and its available_version is
\* that entry's version.
C21_PolicyA ==
    (PolicyReturned("A") /\ resolver.entries # <<>>)
    => LET entry == resolver.entries[1]
       IN  /\ resolver.out.emitted <=> entry.version # resolver.app.version
           /\ resolver.out.emitted => resolver.out.available_version = entry.version

\* The positions Policy B allows to be chosen, written from the variants alone.
PolicyBChoices ==
    LET app == resolver.app
        v == resolver.entries
        match == {i \in DOMAIN v : v[i].architecture \in {app.architecture, "all"}}
        same == {i \in match : v[i].channel = app.channel}
        default == {i \in match : v[i].channel = "focal"}
        subset == IF same # {} THEN same ELSE IF default # {} THEN default ELSE match
    IN  {i \in subset : \A j \in subset : v[j].revision <= v[i].revision}

\* C22: the variant chosen is one of maximum revision in the installed channel's
\* subset of the architecture matches, else the default channel's, else all of
\* them; a candidate is emitted exactly when its version differs from the installed
\* one, and carries that version.
C22_PolicyB ==
    PolicyReturned("B")
    => IF PolicyBChoices = {} THEN ~resolver.out.emitted
       ELSE \E i \in PolicyBChoices :
               LET chosen == resolver.entries[i]
               IN  /\ resolver.out.emitted <=> chosen.version # resolver.app.version
                   /\ resolver.out.emitted
                      => /\ resolver.out.available_version = chosen.version
                         /\ resolver.out.of = chosen.channel

\* An app of channel noble meets no noble download and two focal ones among the
\* matches, next to a higher revision of another channel and a focal download of
\* another architecture: the candidate is the focal download of revision 2.
C22_Witness ==
    /\ PolicyReturned("B")
    /\ resolver.app = [version |-> "1.0", channel |-> "noble", architecture |-> "arm64"]
    /\ Len(resolver.entries) = 2
    /\ resolver.entries[1] = [channel |-> "xenial", architecture |-> "all",
                              revision |-> 2, version |-> "1.0"]
    /\ resolver.entries[2] = [channel |-> "focal", architecture |-> "arm64",
                              revision |-> 1, version |-> "1.1"]
    /\ resolver.out = [emitted |-> TRUE, available_version |-> "1.1", of |-> "focal"]

----------------------------------------------------------------------------
(* Claims about the apt transactions, under AptSpec *)

\* C25: a call that waited reports success exactly when the transaction's exit state
\* it observed before the timeout is exit-success; a call that saw no final exit
\* state in time cancelled the transaction once and reports failure; the wait's
\* future is set at most once.
C25_BoundedWait ==
    /\ apt.sets <= 1
    /\ (apt.st = "returned" /\ apt.ret # "raised" /\ (apt.sets > 0 \/ apt.cancels > 0))
       => /\ apt.ret = "true" <=> apt.exit = "exit-success"
          /\ apt.exit \notin FinalStates => apt.cancels = 1 /\ apt.ret = "false"

\* The future is set at most once, and a cancel is sent once, by a call that waited
\* the whole timeout with the future unset, and that call reports failure.
TimeoutAndOnce ==
    /\ apt.sets <= 1
    /\ apt.cancels <= 1
    /\ apt.cancels = 1 => apt.ret = "false" /\ apt.elapsed = WaitTimeout /\ apt.sets = 0

----------------------------------------------------------------------------
(* Claims on the serializer's states, the session and the idle supervisor, under
   Spec *)

\* C32: a service that is idle (exported, its worker parked on the queue) holds no
\* open HTTP session: every operation that opened one has closed it by the time it
\* completed.
C32_NoSessionWhenIdle ==
    \A s \in Services :
        (mgr # "exited" /\ svc[s] = "ready" /\ task_processor[s] = "parked")
            => ~session[s]

C34_NoSelfDeadlock ==
    \A j \in JobIds :
        ~(/\ jobs[j].body = "waiting"
          /\ jobs[j].child # 0
          /\ jobs[jobs[j].child].svc = jobs[j].svc
          /\ ~Started(jobs[j].child)
          /\ jobs[jobs[j].child].fut = "pending")

\* C35: shutdown is not signalled while a job body is executing in any service,
\* the resets of its enqueue and dequeue having run.
C35_NoShutdownDuringJob ==
    [][(~shutdown_event /\ shutdown_event' /\ ~resetPending)
          => \A s \in Services : ExecutingOn(s) = {}]_vars

\* C36: a stopped service stays stopped.  Its worker is not started again, _running
\* does not become true again, and no job of it starts executing, whether it was
\* in the queue at the stop or is put afterwards.
C36_StoppedIsTerminal ==
    [][\A s \in Services :
          Stopped(s) =>
              /\ Stopped(s)'
              /\ ~running[s] => ~running'[s]
              /\ current'[s] = NoItem
              /\ \A j \in JobIds :
                    jobs'[j].svc = s =>
                        /\ jobs'[j].runs = jobs[j].runs
                        /\ jobs'[j].body \notin {"running", "waiting"}]_vars

\* A stopped service whose queue holds a job put before the stop and a job put
\* after it, neither started.
C36_Witness ==
    \E j, k \in JobIds :
        /\ Put(j)
        /\ jobs[j].svc = jobs[k].svc
        /\ Stopped(jobs[j].svc)
        /\ ~running[jobs[j].svc]
        /\ Put(j) /\ ~jobs[j].late /\ ~Started(j)
        /\ jobs[k].late /\ ~Started(k)

----------------------------------------------------------------------------
(* Claims on what a sync reports and on who replaces the catalog, under SyncSpec *)

\* C40: an operation whose sync returned true has had that sync's replacement of
\* the catalog committed.
C40_TrueMeansStored ==
    op.res = "true" => last.done /\ last.outs[3]

\* save_packages_to_db / save_app_list is between its BEGIN and the end of its commit.
ReplaceInProgress == pc \in {"begin", "delete", "insert", "commit"}

\* C31: the catalog is being replaced only while a queued job of the service is
\* executing: the body of one of the exposed operations that use the catalog.
C31_ReplaceInsideJob ==
    ReplaceInProgress => op.name \in OpsOf(eng)

----------------------------------------------------------------------------
(* Install against the upgrade diff, under ResolveSpec *)

\* C38: GetUpgradable, run on the record a successful Install has just saved and
\* on the same downloads, reports no upgrade for that package.
C38_InstallThenNoUpgrade ==
    PolicyReturned("I") => ~resolver.out.emitted

----------------------------------------------------------------------------
(* Failed Install, under ClickSpec *)

\* C37: when Install returns false for a package that had an installed record
\* before the call, the record, the directory contents and the desktop entries
\* are what they were before the call, and the record's directory holds the files
\* of the recorded version.
C37_FailedInstallKeepsOld ==
    (click.pc = "returned" /\ click.ret = "false" /\ click.was.rec # "none")
        => /\ Installation(click) = click.was
           /\ click.exists
           /\ click.rec \in click.files

----------------------------------------------------------------------------
(* Android UpgradePackages' result, under UpgradeSpec *)

\* The packages of the upgrade list that are upgrade candidates.
ListedCandidates == Range(upgrade.upgrade_list) \cap Range(upgrade.upgradables)

\* C39: when Android UpgradePackages has returned after entering its loop, true
\* means every listed candidate was downloaded and installed, and, whatever the
\* result, every listed candidate was attempted: no failure stopped the attempts
\* for the rest of the list.
C39_TrueOnlyIfAllUpgraded ==
    (upgrade.pc = "returned" /\ upgrade.upgrade_list # <<>>)
        => /\ upgrade.ret = "true" => ListedCandidates \subseteq upgrade.installed
           /\ ListedCandidates \subseteq upgrade.attempted

====
